---- MODULE Spec2Model ----
(***************************************************************************)
(* Provider abstraction of claude-code-action: the GitHub (GraphQL) and    *)
(* Forgejo (REST) adapters, the Forgejo HTTP client and the Forgejo        *)
(* mappers, as one call of one operation on one adapter instance.          *)
(*                                                                         *)
(* Strings that the code takes apart or splices (the repository string,    *)
(* error messages, request paths) are sequences of tokens: a repository    *)
(* is a sequence of characters, a template literal is the concatenation    *)
(* of its literal fragments (one token each) and its interpolated values.  *)
(* An optional number (line?: number) is <<>> when absent and <<n>> when   *)
(* present; an optional/empty string is "".                                *)
(***************************************************************************)
EXTENDS Integers, Sequences, FiniteSets, TLC

VARIABLES
    provider,            \* "github" | "forgejo": the adapter the call is made on
    op,                  \* the operation invoked
    repository,          \* params.repository, a sequence of characters
    isPR,                \* params.isPR
    triggerUsername,     \* params.triggerUsername / login ("" when not supplied)
    apiUrl,              \* config.apiUrl held by the ForgejoApiClient
    env,                 \* process.env, the variables the selector reads
    octokits,            \* whether an Octokits client handle is supplied
    forgeType,           \* the type asked of / resolved by the selector
    config,              \* the GitForgeConfig given to / built by the selector
    suspended,           \* the other call in flight on the adapter, while it waits
    pc,                  \* the await the call is suspended at
    requests,            \* every backend request issued so far, in order
    log,                 \* console.error / console.warn / console.log entries
    primary,             \* the responses of the Promise.all requests
    itemData,            \* prData / issueData (Forgejo), contextData (GitHub)
    commits,
    files,               \* files (Forgejo), changedFiles (GitHub)
    comments,
    reviews,
    reviewComments,
    reviewData,          \* GitHub: pullRequest.reviews or null
    contextData,         \* Forgejo: the mapped ForgePullRequest / ForgeIssue
    changedFilesWithSHA,
    seen,                \* what each endpoint answered in this call (history)
    result               \* the promise the operation returned

params == <<provider, op, repository, isPR, triggerUsername, apiUrl,
            env, octokits, forgeType, config, suspended>>
locals == <<itemData, commits, files, comments, reviews, reviewComments,
            reviewData, contextData, changedFilesWithSHA>>
vars == <<params, pc, requests, log, primary, locals, seen, result>>

-----------------------------------------------------------------------------
(* Bounds of the model *)

MaxRepoLen == 5      \* longest repository string tried
MaxItems == 2        \* longest commit / file / comment list of a backend page
MaxReviews == 2      \* longest review list and review-comment list (fetch)
MaxMapReviews == 3   \* longest review list given to the mapper alone

-----------------------------------------------------------------------------
(* Strings *)

Chars == {"o", "/"}

RepoStrings == UNION {[1..n -> Chars] : n \in 0..MaxRepoLen}

\* s contains t as a contiguous substring
Contains(s, t) ==
    \E i \in 0..(Len(s) - Len(t)) : \A j \in 1..Len(t) : s[i + j] = t[j]

RECURSIVE JsSplit(_, _, _)
\* String.prototype.split("/") from position i on, cur the segment being read
JsSplit(s, i, cur) ==
    IF i > Len(s) THEN <<cur>>
    ELSE IF s[i] = "/" THEN <<cur>> \o JsSplit(s, i + 1, <<>>)
    ELSE JsSplit(s, i + 1, Append(cur, s[i]))

Split(s) == JsSplit(s, 1, <<>>)

\* !x for x = parts[i] of an array destructuring: undefined or ""
Falsy(parts, i) == Len(parts) < i \/ parts[i] = <<>>

\* an optional number used as a condition: undefined and 0 are falsy
Truthy(n) == n # <<>> /\ n[1] # 0

-----------------------------------------------------------------------------
(* Repository-format validation *)

\* parts.length !== 2
ForgejoInvalid(repo) == Len(Split(repo)) # 2

\* !owner || !repo
GitHubInvalid(repo) == Falsy(Split(repo), 1) \/ Falsy(Split(repo), 2)

ForgejoInvalidMessage(repo) == <<"Invalid repository format: ">> \o repo

GitHubInvalidMessage == <<"Invalid repository format. Expected 'owner/repo'.">>

-----------------------------------------------------------------------------
(* Values *)

JsNull == [tag |-> "null"]
JsStr(s) == [tag |-> "string", v |-> s]
JsVoid == [tag |-> "void"]
NoData == [tag |-> "none"]

Pending == [state |-> "pending"]
Resolved(v) == [state |-> "resolved", value |-> v]
Rejected(e) == [state |-> "rejected", error |-> e]

LogEntry(level, text) == [level |-> level, text |-> text]

\* Number.prototype.toString / template interpolation of a number
NumStr(n) == ToString(n)

\* String.prototype.toLowerCase on the state strings the backends use
toLowerCase(s) ==
    CASE s = "OPEN" -> "open"
      [] s = "CLOSED" -> "closed"
      [] s = "Open" -> "open"
      [] s = "APPROVED" -> "approved"
      [] s = "CHANGES_REQUESTED" -> "changes_requested"
      [] s = "REQUEST_CHANGES" -> "request_changes"
      [] s = "COMMENT" -> "comment"
      [] s = "COMMENTED" -> "commented"
      [] OTHER -> s

-----------------------------------------------------------------------------
(* What the backend may answer to one HTTP request (the fetch API) *)

NetError == [net |-> "error"]                      \* fetch() rejects
Http(status, body) == [net |-> "ok", status |-> status, body |-> body]
NotJson == [json |-> FALSE]                        \* empty or non-JSON body
Json(d) == [json |-> TRUE, data |-> d]
ErrorBody(message) == Json([tag |-> "object", message |-> message])
ListBody(items) == Json([tag |-> "list", items |-> items])

\* Response.ok of the fetch API
ResponseOk(status) == status \in 200..299

\* what an endpoint answered, as kept in the history variable
Unanswered == [kind |-> "none", status |-> 0, message |-> <<>>, outcome |-> NoData]

Kind(o) ==
    IF o.net = "error" THEN "neterr"
    ELSE IF ~o.body.json THEN IF ResponseOk(o.status) THEN "2xx-nobody" ELSE "non2xx-nobody"
    ELSE IF ResponseOk(o.status) THEN "2xx" ELSE "non2xx"

Answer(o) ==
    [kind |-> Kind(o),
     status |-> IF o.net = "ok" THEN o.status ELSE 0,
     message |-> IF o.net = "ok" /\ o.body.json /\ o.body.data.tag = "object"
                 THEN o.body.data.message ELSE <<>>,
     outcome |-> o]

-----------------------------------------------------------------------------
(* ForgejoApiClient *)

Threw(e) == [threw |-> TRUE, error |-> e]

ClientFailed(method, cause) ==
    Threw(<<"Forgejo API ", method, " request failed: ">> \o cause)

\* getApiUrl: throws when config.apiUrl is empty
ApiUrlMissing(url) == url = ""

\* a network error handed back as a response that is not ok
ClientRequestNetErrAsResponse(url, method, o) ==
    IF ApiUrlMissing(url)
    THEN ClientFailed(method, <<"Error: apiUrl is required for Forgejo provider">>)
    ELSE IF o.net = "error"
    THEN [threw |-> FALSE, ok |-> FALSE, status |-> 0, data |-> JsNull]
    ELSE IF ~o.body.json THEN ClientFailed(method, <<"SyntaxError: JSON Parse error">>)
    ELSE [threw |-> FALSE, ok |-> ResponseOk(o.status), status |-> o.status,
          data |-> o.body.data]

\* get / post / patch: fetch, then response.json(), any throw re-thrown wrapped
ClientRequest(url, method, o) ==
    IF ApiUrlMissing(url)
    THEN ClientFailed(method, <<"Error: apiUrl is required for Forgejo provider">>)
    ELSE IF o.net = "error" THEN ClientFailed(method, <<"TypeError: fetch failed">>)
    ELSE IF ~o.body.json THEN ClientFailed(method, <<"SyntaxError: JSON Parse error">>)
    ELSE [threw |-> FALSE, ok |-> ResponseOk(o.status), status |-> o.status,
          data |-> o.body.data]

\* response.data?.message || "Unknown error"
DataMessage(data) ==
    IF data.tag = "object" /\ data.message # <<>> THEN data.message
    ELSE <<"Unknown error">>

Request(method, endpoint, path) ==
    [method |-> method, endpoint |-> endpoint, path |-> path]

-----------------------------------------------------------------------------
(* Forgejo mappers *)

mapForgejoUser(user) ==
    [login |-> user.login,
     name |-> IF user.full_name # "" THEN user.full_name ELSE user.login]

mapForgejoComment(comment) ==
    [id |-> NumStr(comment.id),
     databaseId |-> NumStr(comment.id),
     body |-> comment.body,
     author |-> mapForgejoUser(comment.user),
     createdAt |-> comment.created_at]

\* comment.line || comment.original_line || null   (null is <<>>)
mapForgejoReviewComment(comment) ==
    [id |-> NumStr(comment.id),
     databaseId |-> NumStr(comment.id),
     body |-> comment.body,
     author |-> mapForgejoUser(comment.user),
     createdAt |-> comment.created_at,
     path |-> comment.path,
     line |-> IF Truthy(comment.line) THEN comment.line
              ELSE IF Truthy(comment.original_line) THEN comment.original_line
              ELSE <<>>]

mapForgejoCommit(commit) ==
    [oid |-> commit.sha,
     message |-> commit.commit.message,
     author |-> [name |-> commit.commit.author.name,
                 email |-> commit.commit.author.email]]

mapForgejoFile(file) ==
    [path |-> file.filename,
     additions |-> file.additions,
     deletions |-> file.deletions,
     changeType |-> file.status]


mapForgejoReview(review, rcs) ==
    [id |-> NumStr(review.id),
     databaseId |-> NumStr(review.id),
     author |-> mapForgejoUser(review.user),
     body |-> review.body,
     state |-> toLowerCase(review.state),
     submittedAt |-> review.submitted_at,
     comments |-> [nodes |-> [i_ \in 1..Len(rcs) |-> mapForgejoReviewComment(rcs[i_])]]]

\* Map.get(k) || []
MapGet(m, k) == IF k \in DOMAIN m THEN m[k] ELSE <<>>

MapPush(m, k, x) == [j \in DOMAIN m \cup {k} |-> IF j = k THEN Append(MapGet(m, k), x) ELSE m[j]]

\* the last review taken for the first
ReviewIdForLast(rvs) == IF Len(rvs) > 0 THEN rvs[Len(rvs)].id ELSE 0

\* reviews.length > 0 ? reviews[0].id : 0
ReviewIdFor(rvs) == IF Len(rvs) > 0 THEN rvs[1].id ELSE 0

RECURSIVE GroupReviewComments(_, _, _, _)
\* reviewComments.forEach(...) from comment i on, m the reviewCommentsMap so far
GroupReviewComments(rvs, rcs, i, m) ==
    IF i > Len(rcs) THEN m
    ELSE GroupReviewComments(rvs, rcs, i + 1, MapPush(m, ReviewIdFor(rvs), rcs[i]))

EmptyMap == [k \in {} |-> <<>>]

\* the default left out: an absent number stays absent (-1)
OrAbsent(n) == IF n # <<>> THEN n[1] ELSE -1

\* n || 0 for an optional number
OrZero(n) == IF Truthy(n) THEN n[1] ELSE 0

\* the value of a list parameter that was not supplied (= [])
DefaultList == <<>>

mapForgejoPullRequest(pr, cs, fs, cms, rvs, rcs) ==
    LET reviewCommentsMap == GroupReviewComments(rvs, rcs, 1, EmptyMap)
        mapReview(review) == mapForgejoReview(review, MapGet(reviewCommentsMap, review.id))
        wrapCommit(commit) == [commit |-> mapForgejoCommit(commit)]
    IN [title |-> pr.title,
        body |-> pr.body,
        author |-> mapForgejoUser(pr.user),
        baseRefName |-> pr.base.ref,
        headRefName |-> pr.head.ref,
        headRefOid |-> pr.head.sha,
        createdAt |-> pr.created_at,
        additions |-> OrZero(pr.additions),
        deletions |-> OrZero(pr.deletions),
        state |-> toLowerCase(pr.state),
        commits |-> [totalCount |-> Len(cs), nodes |-> [i_ \in 1..Len(cs) |-> wrapCommit(cs[i_])]],
        files |-> [nodes |-> [i_ \in 1..Len(fs) |-> mapForgejoFile(fs[i_])]],
        comments |-> [nodes |-> [i_ \in 1..Len(cms) |-> mapForgejoComment(cms[i_])]],
        reviews |-> [nodes |-> [i_ \in 1..Len(rvs) |-> mapReview(rvs[i_])]]]

mapForgejoIssue(issue, cms) ==
    [title |-> issue.title,
     body |-> issue.body,
     author |-> mapForgejoUser(issue.user),
     createdAt |-> issue.created_at,
     state |-> toLowerCase(issue.state),
     comments |-> [nodes |-> [i_ \in 1..Len(cms) |-> mapForgejoComment(cms[i_])]]]

-----------------------------------------------------------------------------
(* Backend payloads (the Forgejo API response types) *)

ForgejoUserFull == [id |-> 1, login |-> "alice", full_name |-> "Alice A"]
ForgejoUserBare == [id |-> 2, login |-> "bob", full_name |-> ""]
ForgejoUserOf(i) == IF i % 2 = 1 THEN ForgejoUserFull ELSE ForgejoUserBare

ForgejoPR(user, state, additions, deletions) ==
    [tag |-> "pr", number |-> 123, title |-> "Test PR", body |-> "Test body",
     user |-> user, state |-> state, created_at |-> "2023-01-01T00:00:00Z",
     base |-> [ref |-> "main", sha |-> "abc123"],
     head |-> [ref |-> "feature", sha |-> "def456"],
     additions |-> additions, deletions |-> deletions]

ForgejoPRs ==
    {ForgejoPR(ForgejoUserFull, "open", <<10>>, <<5>>),
     ForgejoPR(ForgejoUserBare, "OPEN", <<>>, <<>>)}

ForgejoIssues ==
    {[tag |-> "issue", number |-> 123, title |-> "Test issue", body |-> "Test body",
      user |-> ForgejoUserBare, state |-> "open",
      created_at |-> "2023-01-01T00:00:00Z"]}

ForgejoCommitOf(i) ==
    [sha |-> NumStr(i),
     commit |-> [message |-> "Test commit",
                 author |-> [name |-> "Test User", email |-> "test@example.com"]]]

ForgejoFileOf(i) ==
    [filename |-> NumStr(i), additions |-> 10, deletions |-> 5, changes |-> 15,
     status |-> IF i % 2 = 1 THEN "modified" ELSE "removed"]

ForgejoCommentOf(i) ==
    [id |-> i, user |-> ForgejoUserOf(i), body |-> "Test comment",
     created_at |-> "2023-01-01T00:00:00Z"]

ForgejoReviewOf(id) ==
    [id |-> id, user |-> ForgejoUserOf(id),
     body |-> "Looks good",
     state |-> IF id % 2 = 1 THEN "APPROVED" ELSE "REQUEST_CHANGES",
     submitted_at |-> "2023-01-02T00:00:00Z"]

ForgejoReviewCommentOf(id) ==
    [id |-> 100 + id, user |-> ForgejoUserOf(id), body |-> "Nit", path |-> "test.js",
     line |-> IF id % 3 = 1 THEN <<10>> ELSE IF id % 3 = 2 THEN <<>> ELSE <<0>>,
     original_line |-> IF id % 2 = 0 THEN <<15>> ELSE <<>>,
     created_at |-> "2023-01-02T00:00:00Z"]

\* the sequences without repetition of elements of S, up to length n
InjectiveSeqs(S, n) ==
    {q \in UNION {[1..k -> S] : k \in 0..n} :
        \A i, j \in DOMAIN q : i # j => q[i] # q[j]}

PrNumber == "123"        \* params.prNumber / number
CommentId == "456"       \* commentId
Login == "alice"         \* a login to look up

-----------------------------------------------------------------------------
(* Outcomes the backend can produce, per endpoint *)

NotFound == Http(404, ErrorBody(<<"Not Found">>))
ServerError == Http(500, ErrorBody(<<"Internal Server Error">>))
Unavailable == Http(503, ErrorBody(<<>>))
BadGateway == Http(502, NotJson)
NoContent == Http(204, NotJson)

PullOutcomes ==
    {Http(200, Json(p)) : p \in ForgejoPRs} \cup {NotFound, ServerError, NetError, BadGateway}

IssueOutcomes ==
    {Http(200, Json(p)) : p \in ForgejoIssues} \cup {NotFound, ServerError, NetError, BadGateway}

CommitsOutcomes ==
    {Http(200, ListBody(l)) : l \in {[i_ \in 1..k_ |-> ForgejoCommitOf(i_)] : k_ \in 0..MaxItems}} \cup {ServerError, NetError}

FilesOutcomes ==
    {Http(200, ListBody(l)) : l \in {[i_ \in 1..k_ |-> ForgejoFileOf(i_)] : k_ \in 0..MaxItems}} \cup {ServerError, NetError}

CommentsOutcomes ==
    {Http(200, ListBody(l)) : l \in {[i_ \in 1..k_ |-> ForgejoCommentOf(i_)] : k_ \in 0..MaxItems}} \cup {ServerError, NetError}

ReviewsOutcomes ==
    {Http(200, ListBody(l)) : l \in {[i_ \in 1..k_ |-> ForgejoReviewOf(i_)] : k_ \in 0..MaxReviews}}
        \cup {NotFound, NetError, NoContent}

ReviewCommentsOutcomes ==
    {Http(200, ListBody(l)) : l \in {[i_ \in 1..k_ |-> ForgejoReviewCommentOf(i_)] : k_ \in 0..MaxReviews}}
        \cup {NotFound, NetError, NoContent}

UserOutcomes ==
    {Http(200, Json([tag |-> "user", login |-> u.login, full_name |-> u.full_name])) :
        u \in {ForgejoUserFull, ForgejoUserBare, [login |-> "", full_name |-> ""]}}
        \cup {Http(200, Json(JsNull)), NotFound, NetError, BadGateway}

WriteOutcomes ==
    {Http(201, Json([tag |-> "comment", id |-> 789])), NoContent,
     Http(403, ErrorBody(<<"Forbidden">>)), NotFound, Unavailable, NetError, BadGateway}

PrimaryOutcomes(key) ==
    CASE key = "pull" -> PullOutcomes
      [] key = "issue" -> IssueOutcomes
      [] key = "commits" -> CommitsOutcomes
      [] key = "files" -> FilesOutcomes
      [] key = "comments" -> CommentsOutcomes

\* a healthy backend, for the runs that vary the repository string instead
HealthyPull == {Http(200, Json(ForgejoPR(ForgejoUserFull, "open", <<10>>, <<5>>)))}
HealthyIssue == IssueOutcomes \ {NotFound, ServerError, NetError, BadGateway}
HealthyCommits == {Http(200, ListBody(<<ForgejoCommitOf(1)>>))}
HealthyFiles == {Http(200, ListBody(<<ForgejoFileOf(1)>>))}
HealthyComments == {Http(200, ListBody(<<ForgejoCommentOf(1)>>))}
HealthyReviews == {Http(200, ListBody(<<ForgejoReviewOf(1)>>)), NotFound}
HealthyReviewComments == {Http(200, ListBody(<<ForgejoReviewCommentOf(1)>>))}
HealthyUser ==
    {Http(200, Json([tag |-> "user", login |-> "alice", full_name |-> "Alice A"]))}
HealthyWrite == {Http(201, Json([tag |-> "comment", id |-> 789])), NotFound}

HealthyOutcomes(key) ==
    CASE key = "pull" -> HealthyPull
      [] key = "issue" -> HealthyIssue
      [] key = "commits" -> HealthyCommits
      [] key = "files" -> HealthyFiles
      [] key = "comments" -> HealthyComments
      [] key = "reviews" -> HealthyReviews
      [] key = "reviewComments" -> HealthyReviewComments
      [] key = "user" -> HealthyUser
      [] key = "write" -> HealthyWrite

\* the keys of the requests made in the Promise.all
PrimaryEndpoints == {"pull", "issue", "commits", "files", "comments"}

-----------------------------------------------------------------------------
(* State of a call *)

\* process.env: a variable is unset (<<>>) or set to a string (<<s>>)
Unset == <<>>
EnvSet(s) == <<s>>

NoEnv == [FORGE_TYPE |-> Unset, FORGE_API_URL |-> Unset, FORGE_SERVER_URL |-> Unset,
          GITHUB_TOKEN |-> Unset, GITHUB_API_URL |-> Unset, GITHUB_SERVER_URL |-> Unset]

Endpoints ==
    {"pull", "issue", "commits", "files", "comments", "reviews", "reviewComments",
     "user", "createComment", "updateComment",
     "PR_QUERY", "ISSUE_QUERY", "USER_QUERY", "issues.createComment",
     "issues.updateComment", "hash-object"}

NoResponses == [e \in {} |-> NoData]

Operations == {"fetchData", "fetchUserDisplayName", "createComment", "updateComment"}

\* no other call is in flight
NoFrame == [tag |-> "none"]

\* a call has been made and nothing of it has run yet
InvokedCall(p, o, r, pr, t, url) ==
    /\ provider = p /\ op = o /\ repository = r /\ isPR = pr
    /\ triggerUsername = t /\ apiUrl = url
    /\ env = NoEnv /\ octokits = (p = "github") /\ forgeType = p
    /\ config = [type |-> p, apiUrl |-> url, serverUrl |-> "https://forgejo.example.com",
                 token |-> "test-token"]
    /\ pc = "start"
    /\ requests = <<>> /\ log = <<>>
    /\ primary = NoResponses
    /\ itemData = NoData /\ commits = <<>> /\ files = <<>> /\ comments = <<>>
    /\ reviews = <<>> /\ reviewComments = <<>> /\ reviewData = JsNull
    /\ contextData = NoData /\ changedFilesWithSHA = <<>>
    /\ seen = [e \in Endpoints |-> Unanswered]
    /\ result = Pending

\* one call on the adapter, no other in flight
Invoked(p, o, r, pr, t, url) ==
    InvokedCall(p, o, r, pr, t, url) /\ suspended = NoFrame

Seg(parts, i) == IF i <= Len(parts) THEN parts[i] ELSE <<"undefined">>

ReposPath(repo, tail) ==
    <<"/repos/">> \o Seg(Split(repo), 1) \o <<"/">> \o Seg(Split(repo), 2) \o tail

-----------------------------------------------------------------------------
(* ForgejoProvider *)

\* the file list asked for an issue as well
PrimaryKeysWithFiles(pr) ==
    IF pr THEN <<"pull", "commits", "files", "comments">> ELSE <<"issue", "comments", "files">>

PrimaryKeys(pr) ==
    IF pr THEN <<"pull", "commits", "files", "comments">> ELSE <<"issue", "comments">>

PrimaryPath(repo, key) ==
    CASE key = "pull" -> ReposPath(repo, <<"/pulls/", PrNumber>>)
      [] key = "commits" -> ReposPath(repo, <<"/pulls/", PrNumber, "/commits">>)
      [] key = "files" -> ReposPath(repo, <<"/pulls/", PrNumber, "/files">>)
      [] key = "comments" -> ReposPath(repo, <<"/issues/", PrNumber, "/comments">>)
      [] key = "issue" -> ReposPath(repo, <<"/issues/", PrNumber>>)

\* only the metadata request issued at the start
PrimaryRequestsItemOnly(repo, pr) ==
    <<Request("GET", PrimaryKeys(pr)[1], PrimaryPath(repo, PrimaryKeys(pr)[1]))>>

PrimaryRequests(repo, pr) ==
    [i \in 1..Len(PrimaryKeys(pr)) |->
        Request("GET", PrimaryKeys(pr)[i], PrimaryPath(repo, PrimaryKeys(pr)[i]))]

UserRequest(login) == Request("GET", "user", <<"/users/", login>>)

\* the request placed before the validation
IssueEvenIfThrown(thrown, reqs, new) == reqs \o new

\* a throw leaves the statements after it unexecuted: the requests `new` are
\* issued only when nothing was thrown before the call that issues them
IssueUnlessThrown(thrown, reqs, new) == IF thrown THEN reqs ELSE reqs \o new

\* the error a client call rejects with before fetch is reached
ClientPreflightError(method) == ClientRequest("", method, NetError).error

FetchFailedLog == LogEntry("error", <<"Failed to fetch data for ">>)

\* every file given the SHA of the base commit
PullRequestResultBaseSha(cd, prData, name) ==
    LET withSha(file) == [path |-> file.path, additions |-> file.additions,
                          deletions |-> file.deletions, changeType |-> file.changeType,
                          sha |-> prData.base.sha]
    IN [contextData |-> cd,
        comments |-> cd.comments.nodes,
        changedFiles |-> cd.files.nodes,
        changedFilesWithSHA |-> [i_ \in 1..Len(cd.files.nodes) |-> withSha(cd.files.nodes[i_])],
        reviewData |-> IF Len(cd.reviews.nodes) > 0 THEN cd.reviews ELSE JsNull,
        imageUrlMap |-> EmptyMap,
        triggerDisplayName |-> name]

\* the review list handed over even when it is empty
PullRequestResultAlwaysReviews(cd, prData, name) ==
    LET withSha(file) == [path |-> file.path, additions |-> file.additions,
                          deletions |-> file.deletions, changeType |-> file.changeType,
                          sha |-> prData.head.sha]
    IN [contextData |-> cd,
        comments |-> cd.comments.nodes,
        changedFiles |-> cd.files.nodes,
        changedFilesWithSHA |-> [i_ \in 1..Len(cd.files.nodes) |-> withSha(cd.files.nodes[i_])],
        reviewData |-> cd.reviews,
        imageUrlMap |-> EmptyMap,
        triggerDisplayName |-> name]

\* the FetchDataResult of fetchPullRequestData
PullRequestResult(cd, prData, name) ==
    LET withSha(file) == [path |-> file.path, additions |-> file.additions,
                          deletions |-> file.deletions, changeType |-> file.changeType,
                          sha |-> prData.head.sha]
    IN [contextData |-> cd,
        comments |-> cd.comments.nodes,
        changedFiles |-> cd.files.nodes,
        changedFilesWithSHA |-> [i_ \in 1..Len(cd.files.nodes) |-> withSha(cd.files.nodes[i_])],
        reviewData |-> IF Len(cd.reviews.nodes) > 0 THEN cd.reviews ELSE JsNull,
        imageUrlMap |-> EmptyMap,
        triggerDisplayName |-> name]

\* the FetchDataResult of fetchIssueData
IssueResult(cd, name) ==
    [contextData |-> cd,
     comments |-> cd.comments.nodes,
     changedFiles |-> <<>>,
     changedFilesWithSHA |-> <<>>,
     reviewData |-> JsNull,
     imageUrlMap |-> EmptyMap,
     triggerDisplayName |-> name]

ForgejoFetchResult(cd, prData, name) ==
    IF isPR THEN PullRequestResult(cd, prData, name) ELSE IssueResult(cd, name)

\* fetchData up to its first await: validation, then the Promise.all requests
ForgejoFetchDataStart ==
    /\ provider = "forgejo" /\ op = "fetchData" /\ pc = "start"
    /\ requests' = IssueUnlessThrown(ForgejoInvalid(repository) \/ ApiUrlMissing(apiUrl),
                                     requests, PrimaryRequests(repository, isPR))
    /\ IF ForgejoInvalid(repository)
       THEN /\ result' = Rejected(ForgejoInvalidMessage(repository))
            /\ pc' = "done"
            /\ log' = log
       ELSE IF ApiUrlMissing(apiUrl)
       THEN /\ result' = Rejected(ClientPreflightError("GET"))
            /\ pc' = "done"
            /\ log' = Append(log, FetchFailedLog)
       ELSE /\ pc' = "awaitPrimary"
            /\ UNCHANGED <<result, log>>
    /\ UNCHANGED <<params, primary, locals, seen>>

\* one of the Promise.all requests settles; after a rejection the others are ignored
ForgejoPrimaryResponse(key, o) ==
    /\ provider = "forgejo" /\ pc = "awaitPrimary"
    /\ \E i \in DOMAIN PrimaryKeys(isPR) : PrimaryKeys(isPR)[i] = key
    /\ key \notin DOMAIN primary
    /\ \A k \in DOMAIN primary : ~primary[k].threw
    /\ primary' = [k \in DOMAIN primary \cup {key} |->
                      IF k = key THEN ClientRequest(apiUrl, "GET", o) ELSE primary[k]]
    /\ seen' = [seen EXCEPT ![key] = Answer(o)]
    /\ UNCHANGED <<params, pc, requests, log, locals, result>>

PrimaryRejected == \E k \in DOMAIN primary : primary[k].threw

PrimaryAllSettled ==
    \A i \in DOMAIN PrimaryKeys(isPR) : PrimaryKeys(isPR)[i] \in DOMAIN primary

ItemKey == IF isPR THEN "pull" ELSE "issue"

ItemFailedMessage(status) ==
    IF isPR THEN <<"Failed to fetch pull request: ", NumStr(status)>>
    ELSE <<"Failed to fetch issue: ", NumStr(status)>>

\* the first element of the list lost
ListOrEmptyDroppingFirst(response) ==
    IF response.ok /\ Len(response.data.items) > 0 THEN Tail(response.data.items) ELSE <<>>

\* response.ok ? response.data : []
ListOrEmpty(response) == IF response.ok THEN response.data.items ELSE <<>>

\* after the mapping: the display-name lookup when a trigger user was given,
\* else the result
ForgejoAfterMap(cd, prData) ==
    IF triggerUsername # ""
    THEN /\ requests' = Append(requests, UserRequest(triggerUsername))
         /\ pc' = "awaitUser"
         /\ result' = result
    ELSE /\ requests' = requests
         /\ pc' = "done"
         /\ result' = Resolved(ForgejoFetchResult(cd, prData, JsNull))

\* the Promise.all join and what follows it up to the next await
ForgejoJoinPrimary ==
    /\ provider = "forgejo" /\ pc = "awaitPrimary"
    /\ PrimaryRejected \/ PrimaryAllSettled
    /\ IF PrimaryRejected
       THEN /\ result' = Rejected(primary[CHOOSE k \in DOMAIN primary : primary[k].threw].error)
            /\ log' = Append(log, FetchFailedLog)
            /\ pc' = "done"
            /\ UNCHANGED <<requests, locals>>
       ELSE IF ~primary[ItemKey].ok
       THEN /\ result' = Rejected(ItemFailedMessage(primary[ItemKey].status))
            /\ log' = Append(log, FetchFailedLog)
            /\ pc' = "done"
            /\ UNCHANGED <<requests, locals>>
       ELSE /\ itemData' = primary[ItemKey].data
            /\ comments' = ListOrEmpty(primary["comments"])
            /\ log' = log
            /\ IF isPR
               THEN /\ commits' = ListOrEmpty(primary["commits"])
                    /\ files' = ListOrEmpty(primary["files"])
                    /\ requests' = Append(requests,
                           Request("GET", "reviews",
                                   ReposPath(repository, <<"/pulls/", PrNumber, "/reviews">>)))
                    /\ pc' = "awaitReviews"
                    /\ UNCHANGED <<contextData, result>>
               ELSE /\ contextData' = mapForgejoIssue(itemData', comments')
                    /\ ForgejoAfterMap(contextData', itemData')
                    /\ UNCHANGED <<commits, files>>
            /\ UNCHANGED <<reviews, reviewComments, reviewData, changedFilesWithSHA>>
    /\ UNCHANGED <<params, primary, seen>>

ReviewsWarning == LogEntry("warn", <<"Could not fetch reviews for ">>)

ForgejoMapPullRequest(rvs, rcs) ==
    /\ contextData' = mapForgejoPullRequest(itemData, commits, files, comments, rvs, rcs)
    /\ ForgejoAfterMap(contextData', itemData)

\* the reviews request made once more after a non-2xx answer
ForgejoReviewsResponseRetrying(o) ==
    /\ provider = "forgejo" /\ pc = "awaitReviews"
    /\ seen' = [seen EXCEPT !["reviews"] = Answer(o)]
    /\ LET response == ClientRequest(apiUrl, "GET", o)
           reviewsRequest == Request("GET", "reviews",
                                     ReposPath(repository, <<"/pulls/", PrNumber, "/reviews">>))
       IN IF response.threw
          THEN /\ log' = Append(log, ReviewsWarning)
               /\ reviews' = reviews
               /\ ForgejoMapPullRequest(reviews, reviewComments)
          ELSE IF ~response.ok /\ Len(requests) = 5
          THEN /\ requests' = Append(requests, reviewsRequest)
               /\ UNCHANGED <<pc, log, reviews, contextData, result>>
          ELSE /\ reviews' = IF response.ok THEN response.data.items ELSE reviews
               /\ requests' = Append(requests,
                      Request("GET", "reviewComments",
                              ReposPath(repository, <<"/pulls/", PrNumber, "/comments">>)))
               /\ pc' = "awaitReviewComments"
               /\ UNCHANGED <<log, contextData, result>>
    /\ UNCHANGED <<params, primary, itemData, commits, files, comments,
                   reviewComments, reviewData, changedFilesWithSHA>>

\* the reviews response: a throw ends the try block, else the review-comments request
ForgejoReviewsResponse(o) ==
    /\ provider = "forgejo" /\ pc = "awaitReviews"
    /\ seen' = [seen EXCEPT !["reviews"] = Answer(o)]
    /\ LET response == ClientRequest(apiUrl, "GET", o)
       IN IF response.threw
          THEN /\ log' = Append(log, ReviewsWarning)
               /\ reviews' = reviews
               /\ ForgejoMapPullRequest(reviews, reviewComments)
          ELSE /\ reviews' = IF response.ok THEN response.data.items ELSE reviews
               /\ requests' = Append(requests,
                      Request("GET", "reviewComments",
                              ReposPath(repository, <<"/pulls/", PrNumber, "/comments">>)))
               /\ pc' = "awaitReviewComments"
               /\ UNCHANGED <<log, contextData, result>>
    /\ UNCHANGED <<params, primary, itemData, commits, files, comments,
                   reviewComments, reviewData, changedFilesWithSHA>>

\* the review-comments request made outside the try block
ForgejoReviewCommentsResponseUncaught(o) ==
    /\ provider = "forgejo" /\ pc = "awaitReviewComments"
    /\ seen' = [seen EXCEPT !["reviewComments"] = Answer(o)]
    /\ LET response == ClientRequest(apiUrl, "GET", o)
       IN IF response.threw
          THEN /\ result' = Rejected(response.error)
               /\ log' = Append(log, FetchFailedLog)
               /\ pc' = "done"
               /\ UNCHANGED <<requests, reviewComments, contextData>>
          ELSE /\ log' = log
               /\ reviewComments' = IF response.ok THEN response.data.items ELSE reviewComments
               /\ ForgejoMapPullRequest(reviews, reviewComments')
    /\ UNCHANGED <<params, primary, itemData, commits, files, comments,
                   reviews, reviewData, changedFilesWithSHA>>

\* the review-comments response, then the mapping
ForgejoReviewCommentsResponse(o) ==
    /\ provider = "forgejo" /\ pc = "awaitReviewComments"
    /\ seen' = [seen EXCEPT !["reviewComments"] = Answer(o)]
    /\ LET response == ClientRequest(apiUrl, "GET", o)
       IN /\ log' = IF response.threw THEN Append(log, ReviewsWarning) ELSE log
          /\ reviewComments' = IF ~response.threw /\ response.ok
                               THEN response.data.items ELSE reviewComments
          /\ ForgejoMapPullRequest(reviews, reviewComments')
    /\ UNCHANGED <<params, primary, itemData, commits, files, comments,
                   reviews, reviewData, changedFilesWithSHA>>

\* the login handed back where null is due
DisplayNameFallsBackToLogin(response) ==
    IF response.threw THEN JsStr(Login)
    ELSE IF response.ok /\ response.data.tag = "user" /\ response.data.full_name # ""
    THEN JsStr(response.data.full_name)
    ELSE JsStr(Login)

\* response.ok && response.data ? full_name || login || null : null; null on a throw
ForgejoDisplayName(response) ==
    IF response.threw THEN JsNull
    ELSE IF response.ok /\ response.data.tag = "user"
    THEN IF response.data.full_name # "" THEN JsStr(response.data.full_name)
         ELSE IF response.data.login # "" THEN JsStr(response.data.login)
         ELSE JsNull
    ELSE JsNull

DisplayNameLog == LogEntry("error", <<"Failed to fetch user display name for ">>)

\* fetchUserDisplayName called directly, up to its await
ForgejoFetchUserDisplayNameStart ==
    /\ provider = "forgejo" /\ op = "fetchUserDisplayName" /\ pc = "start"
    /\ requests' = IssueUnlessThrown(ApiUrlMissing(apiUrl), requests,
                                     <<UserRequest(triggerUsername)>>)
    /\ IF ApiUrlMissing(apiUrl)
       THEN /\ log' = Append(log, DisplayNameLog)
            /\ result' = Resolved(ForgejoDisplayName(Threw(ClientPreflightError("GET"))))
            /\ pc' = "done"
       ELSE /\ pc' = "awaitUser"
            /\ UNCHANGED <<log, result>>
    /\ UNCHANGED <<params, primary, locals, seen>>

\* the /users/{login} response: the end of fetchUserDisplayName and, inside
\* fetchData, of the fetch
ForgejoUserResponse(o) ==
    /\ provider = "forgejo" /\ pc = "awaitUser"
    /\ seen' = [seen EXCEPT !["user"] = Answer(o)]
    /\ LET response == ClientRequest(apiUrl, "GET", o)
           name == ForgejoDisplayName(response)
       IN /\ log' = IF response.threw THEN Append(log, DisplayNameLog) ELSE log
          /\ result' = IF op = "fetchUserDisplayName" THEN Resolved(name)
                       ELSE Resolved(ForgejoFetchResult(contextData, itemData, name))
    /\ pc' = "done"
    /\ UNCHANGED <<params, requests, primary, locals>>

WriteMethod == IF op = "createComment" THEN "POST" ELSE "PATCH"

WriteRequest(repo) ==
    IF op = "createComment"
    THEN Request("POST", "createComment", ReposPath(repo, <<"/issues/", PrNumber, "/comments">>))
    ELSE Request("PATCH", "updateComment", ReposPath(repo, <<"/issues/comments/", CommentId>>))

WriteLog ==
    IF op = "createComment" THEN LogEntry("error", <<"Failed to create comment for ">>)
    ELSE LogEntry("error", <<"Failed to update comment ">>)

WriteFailedMessage(repo, response) ==
    IF op = "createComment"
    THEN <<"Failed to create comment on ">> \o repo \o <<"#", PrNumber, ": ">>
            \o <<NumStr(response.status), " ">> \o DataMessage(response.data)
    ELSE <<"Failed to update comment ", CommentId, " on ">> \o repo \o <<": ">>
            \o <<NumStr(response.status), " ">> \o DataMessage(response.data)

\* createComment / updateComment up to the await of the POST / PATCH
\* the write resetting the base URL the client holds
ForgejoWriteStartResettingClient ==
    /\ provider = "forgejo" /\ op \in {"createComment", "updateComment"} /\ pc = "start"
    /\ ~ForgejoInvalid(repository) /\ ~ApiUrlMissing(apiUrl)
    /\ requests' = Append(requests, WriteRequest(repository))
    /\ apiUrl' = ""
    /\ pc' = "awaitWrite"
    /\ UNCHANGED <<provider, op, repository, isPR, triggerUsername, env, octokits, forgeType,
                   config, suspended, result, log, primary, locals, seen>>

ForgejoWriteStart ==
    /\ provider = "forgejo" /\ op \in {"createComment", "updateComment"} /\ pc = "start"
    /\ requests' = IssueUnlessThrown(ForgejoInvalid(repository) \/ ApiUrlMissing(apiUrl),
                                     requests, <<WriteRequest(repository)>>)
    /\ IF ForgejoInvalid(repository)
       THEN /\ result' = Rejected(ForgejoInvalidMessage(repository))
            /\ log' = Append(log, WriteLog)
            /\ pc' = "done"
       ELSE IF ApiUrlMissing(apiUrl)
       THEN /\ result' = Rejected(ClientPreflightError(WriteMethod))
            /\ log' = Append(log, WriteLog)
            /\ pc' = "done"
       ELSE /\ pc' = "awaitWrite"
            /\ UNCHANGED <<result, log>>
    /\ UNCHANGED <<params, primary, locals, seen>>

\* the POST / PATCH response
ForgejoWriteResponse(o) ==
    /\ provider = "forgejo" /\ pc = "awaitWrite"
    /\ seen' = [seen EXCEPT ![op] = Answer(o)]
    /\ LET response == ClientRequest(apiUrl, WriteMethod, o)
       IN IF response.threw
          THEN /\ result' = Rejected(response.error)
               /\ log' = Append(log, WriteLog)
          ELSE IF ~response.ok
          THEN /\ result' = Rejected(WriteFailedMessage(repository, response))
               /\ log' = Append(log, WriteLog)
          ELSE /\ result' = Resolved(JsVoid)
               /\ log' = log
    /\ pc' = "done"
    /\ UNCHANGED <<params, requests, primary, locals>>

-----------------------------------------------------------------------------
(* GitHub payloads (the GraphQL response types) and outcomes *)

GitHubAuthorFull == [login |-> "test-user", name |-> "Test User"]
GitHubAuthorBare == [login |-> "octo", name |-> ""]

GitHubCommentOf(i) ==
    [id |-> NumStr(i), databaseId |-> NumStr(i), body |-> "Test comment",
     author |-> IF i % 2 = 1 THEN GitHubAuthorFull ELSE GitHubAuthorBare,
     createdAt |-> "2023-01-01T00:00:00Z"]

GitHubFileOf(i) ==
    [path |-> NumStr(i), additions |-> 10, deletions |-> 5,
     changeType |-> IF i % 2 = 1 THEN "MODIFIED" ELSE "DELETED"]

GitHubReviewCommentOf(i) ==
    [id |-> NumStr(i), databaseId |-> NumStr(i), body |-> "Nit",
     author |-> GitHubAuthorFull, createdAt |-> "2023-01-02T00:00:00Z",
     path |-> "test.js", line |-> <<10>>]

GitHubReviewOf(i) ==
    [id |-> NumStr(i), databaseId |-> NumStr(i), author |-> GitHubAuthorBare,
     body |-> "Looks good", state |-> "APPROVED",
     submittedAt |-> "2023-01-02T00:00:00Z",
     comments |-> [nodes |-> <<GitHubReviewCommentOf(i)>>]]

GitHubCommitOf(i) ==
    [commit |-> [oid |-> NumStr(i), message |-> "Test commit",
                 author |-> [name |-> "Test User", email |-> "test@example.com"]]]

GitHubPR(author, n) ==
    [tag |-> "pr", title |-> "Test PR", body |-> "Test body", author |-> author,
     baseRefName |-> "main", headRefName |-> "feature", headRefOid |-> "def456",
     createdAt |-> "2023-01-01T00:00:00Z", additions |-> 10, deletions |-> 5,
     state |-> "OPEN",
     commits |-> [totalCount |-> n, nodes |-> [i \in 1..n |-> GitHubCommitOf(i)]],
     files |-> [nodes |-> [i \in 1..n |-> GitHubFileOf(i)]],
     comments |-> [nodes |-> [i \in 1..n |-> GitHubCommentOf(i)]],
     reviews |-> [nodes |-> [i \in 1..n |-> GitHubReviewOf(i)]]]

GitHubPRs ==
    {GitHubPR(GitHubAuthorFull, 0)} \cup {GitHubPR(GitHubAuthorBare, n) : n \in 1..(MaxItems + 1)}

GitHubIssues ==
    {[tag |-> "issue", title |-> "Test issue", body |-> "Test body",
      author |-> GitHubAuthorFull, createdAt |-> "2023-01-01T00:00:00Z",
      state |-> "OPEN",
      comments |-> [nodes |-> [i \in 1..n |-> GitHubCommentOf(i)]]] : n \in 0..MaxItems}

GraphqlError(status) == [kind |-> "error", status |-> status, message |-> <<"Upstream failure">>]
GraphqlData(d) == [kind |-> "data", data |-> d]

GraphqlFailures == {GraphqlError(s) : s \in {401, 404, 500}}

\* repository.pullRequest / repository.issue is null when the number does not exist
ItemQueryOutcomes(pr) ==
    {GraphqlData(d) : d \in (IF pr THEN GitHubPRs ELSE GitHubIssues) \cup {JsNull}}
        \cup GraphqlFailures

AnyItemQueryOutcomes == ItemQueryOutcomes(TRUE) \cup ItemQueryOutcomes(FALSE)

UserQueryOutcomes ==
    {GraphqlData([tag |-> "user", name |-> n]) : n \in {JsStr("Test User"), JsNull}}
        \cup {GraphqlData(JsNull)} \cup GraphqlFailures

RestOutcomes == {[kind |-> "ok"]} \cup GraphqlFailures

\* a healthy GitHub backend
HealthyItemQueryOutcomes ==
    {GraphqlData(GitHubPR(GitHubAuthorFull, 0)), GraphqlData(JsNull)}
        \cup {GraphqlData(d) : d \in GitHubIssues}
HealthyUserQueryOutcomes == {GraphqlData([tag |-> "user", name |-> JsStr("Test User")])}
HealthyRestOutcomes == {[kind |-> "ok"], GraphqlError(404)}
NoHashes == <<>>

GraphqlKind(o) ==
    IF o.kind = "error" THEN IF o.status = 404 THEN "notfound" ELSE "non2xx"
    ELSE IF o.data.tag = "null" THEN "notfound" ELSE "2xx"

GraphqlAnswer(o) ==
    [kind |-> GraphqlKind(o),
     status |-> IF o.kind = "error" THEN o.status ELSE 200,
     message |-> IF o.kind = "error" THEN o.message ELSE <<>>,
     outcome |-> o]

RestAnswer(o) ==
    IF o.kind = "ok" THEN [kind |-> "2xx", status |-> 200, message |-> <<>>, outcome |-> o]
    ELSE GraphqlAnswer(o)

\* execSync(`git hash-object ...`): the hash, or a throw
HashOutcomes == {"3b18e512", "throws"}

-----------------------------------------------------------------------------
(* GitHubProvider *)

convertToForgeAuthor(author) == [login |-> author.login, name |-> author.name]

convertToForgeComment(comment) ==
    [id |-> comment.id, databaseId |-> comment.databaseId, body |-> comment.body,
     author |-> convertToForgeAuthor(comment.author), createdAt |-> comment.createdAt]

convertToForgeComments(cms) == [i_ \in 1..Len(cms) |-> convertToForgeComment(cms[i_])]

convertToForgeFile(file) ==
    [path |-> file.path, additions |-> file.additions, deletions |-> file.deletions,
     changeType |-> file.changeType]

convertToForgeFiles(fs) == [i_ \in 1..Len(fs) |-> convertToForgeFile(fs[i_])]

convertToForgeCommit(commit) ==
    [oid |-> commit.oid, message |-> commit.message,
     author |-> [name |-> commit.author.name, email |-> commit.author.email]]

convertToForgeReviewComment(comment) ==
    [id |-> comment.id, databaseId |-> comment.databaseId, body |-> comment.body,
     author |-> convertToForgeAuthor(comment.author), createdAt |-> comment.createdAt,
     path |-> comment.path, line |-> comment.line]

convertToForgeReview(review) ==
    [id |-> review.id, databaseId |-> review.databaseId,
     author |-> convertToForgeAuthor(review.author), body |-> review.body,
     state |-> review.state, submittedAt |-> review.submittedAt,
     comments |-> [nodes |-> [i_ \in 1..Len(review.comments.nodes) |-> convertToForgeReviewComment(review.comments.nodes[i_])]]]

convertToForgeReviews(rvs) == [i_ \in 1..Len(rvs) |-> convertToForgeReview(rvs[i_])]

\* { ...data, author: ..., commits: ..., ... }
convertToForgeData(data) ==
    LET wrapCommit(node) == [commit |-> convertToForgeCommit(node.commit)]
    IN IF data.tag = "pr"
       THEN [data EXCEPT
               !.author = convertToForgeAuthor(data.author),
               !.commits = [totalCount |-> data.commits.totalCount,
                            nodes |-> [i_ \in 1..Len(data.commits.nodes) |-> wrapCommit(data.commits.nodes[i_])]],
               !.files = [nodes |-> convertToForgeFiles(data.files.nodes)],
               !.comments = [nodes |-> convertToForgeComments(data.comments.nodes)],
               !.reviews = [nodes |-> convertToForgeReviews(data.reviews.nodes)]]
       ELSE [data EXCEPT
               !.author = convertToForgeAuthor(data.author),
               !.comments = [nodes |-> convertToForgeComments(data.comments.nodes)]]

\* the deleted files hashed like the others
ComputeSHAsHashingDeleted(fs, hashes) ==
    [i \in 1..Len(fs) |->
        [path |-> fs[i].path, additions |-> fs[i].additions,
         deletions |-> fs[i].deletions, changeType |-> fs[i].changeType,
         sha |-> IF hashes[i] = "throws" THEN "unknown" ELSE hashes[i]]]

\* changedFiles.map(...): "deleted", the hash, or "unknown" when hashing throws
ComputeSHAs(fs, hashes) ==
    [i \in 1..Len(fs) |->
        [path |-> fs[i].path, additions |-> fs[i].additions,
         deletions |-> fs[i].deletions, changeType |-> fs[i].changeType,
         sha |-> IF fs[i].changeType = "DELETED" THEN "deleted"
                 ELSE IF hashes[i] = "throws" THEN "unknown"
                 ELSE hashes[i]]]

\* execSync(`git hash-object ...`) per file: not run for a deleted file
HashRuns(fs, hashes) ==
    [i \in 1..Len(fs) |-> IF fs[i].changeType = "DELETED" THEN "not run" ELSE hashes[i]]

HashWarning(path) == LogEntry("warn", <<"Failed to compute SHA for ", path>>)

RECURSIVE HashWarnings(_, _, _)
\* the console.warn of every execSync that threw, from file i on
HashWarnings(fs, hashes, i) ==
    IF i > Len(fs) THEN <<>>
    ELSE (IF HashRuns(fs, hashes)[i] = "throws" THEN <<HashWarning(fs[i].path)>> ELSE <<>>)
            \o HashWarnings(fs, hashes, i + 1)

GitHubFetchFailedMessage ==
    <<"Failed to fetch ", IF isPR THEN "PR" ELSE "issue", " data">>

GitHubFetchResult(name) ==
    [contextData |-> convertToForgeData(itemData),
     comments |-> convertToForgeComments(comments),
     changedFiles |-> convertToForgeFiles(files),
     changedFilesWithSHA |-> changedFilesWithSHA,
     reviewData |-> IF "nodes" \notin DOMAIN reviewData THEN JsNull
                    ELSE [nodes |-> convertToForgeReviews(reviewData.nodes)],
     imageUrlMap |-> EmptyMap,
     triggerDisplayName |-> name]

JsUndefined == [tag |-> "undefined"]

ItemQuery == IF isPR THEN "PR_QUERY" ELSE "ISSUE_QUERY"

\* fetchData up to the await of the GraphQL query
GitHubFetchDataStart ==
    /\ provider = "github" /\ op = "fetchData" /\ pc = "start"
    /\ requests' = IssueUnlessThrown(GitHubInvalid(repository), requests,
                      <<Request("GRAPHQL", ItemQuery,
                                Seg(Split(repository), 1) \o <<"/">> \o Seg(Split(repository), 2)
                                    \o <<"#", PrNumber>>)>>)
    /\ IF GitHubInvalid(repository)
       THEN /\ result' = Rejected(GitHubInvalidMessage)
            /\ pc' = "done"
       ELSE /\ pc' = "awaitGraphql"
            /\ result' = result
    /\ UNCHANGED <<params, log, primary, locals, seen>>

\* the GraphQL response, the SHA computation, up to the await of the image download
GitHubGraphqlResponse(o, hashes) ==
    /\ provider = "github" /\ pc = "awaitGraphql"
    /\ o.kind = "data" /\ o.data.tag # "null" => o.data.tag = (IF isPR THEN "pr" ELSE "issue")
    /\ IF o.kind = "error" \/ o.data.tag = "null"
       THEN /\ log' = Append(log, LogEntry("error", <<"Failed to fetch ">>))
            /\ seen' = [seen EXCEPT ![ItemQuery] = GraphqlAnswer(o)]
            /\ result' = Rejected(GitHubFetchFailedMessage)
            /\ pc' = "done"
            /\ UNCHANGED locals
       ELSE /\ itemData' = o.data
            /\ files' = IF isPR THEN o.data.files.nodes ELSE <<>>
            /\ comments' = o.data.comments.nodes
            /\ reviewData' = IF isPR THEN o.data.reviews ELSE JsNull
            /\ DOMAIN hashes = DOMAIN files'
            /\ seen' = [seen EXCEPT ![ItemQuery] = GraphqlAnswer(o),
                                    !["hash-object"] =
                                        IF isPR /\ Len(files') > 0
                                        THEN [kind |-> "exec", status |-> 0, message |-> <<>>,
                                              outcome |-> HashRuns(files', hashes)]
                                        ELSE Unanswered]
            /\ log' = Append(log, LogEntry("log", <<"Successfully fetched ">>))
                            \o HashWarnings(files', hashes, 1)
            /\ changedFilesWithSHA' = IF isPR /\ Len(files') > 0
                                      THEN ComputeSHAs(files', hashes) ELSE <<>>
            /\ pc' = "awaitImages"
            /\ result' = result
            /\ UNCHANGED <<commits, reviews, reviewComments, contextData>>
    /\ UNCHANGED <<params, requests, primary>>

\* downloadCommentImages resolved; then the display-name query or the result
GitHubImagesDownloaded ==
    /\ provider = "github" /\ pc = "awaitImages"
    /\ IF triggerUsername # ""
       THEN /\ requests' = Append(requests, Request("GRAPHQL", "USER_QUERY", <<triggerUsername>>))
            /\ pc' = "awaitUser"
            /\ result' = result
       ELSE /\ requests' = requests
            /\ pc' = "done"
            /\ result' = Resolved(GitHubFetchResult(JsUndefined))
    /\ UNCHANGED <<params, log, primary, locals, seen>>

\* result.user.name, null when the query or the property access throws
GitHubDisplayName(o) ==
    IF o.kind = "error" THEN JsNull
    ELSE IF o.data.tag = "null" THEN JsNull
    ELSE o.data.name

GitHubDisplayNameThrew(o) == o.kind = "error" \/ o.data.tag = "null"

GitHubFetchUserDisplayNameStart ==
    /\ provider = "github" /\ op = "fetchUserDisplayName" /\ pc = "start"
    /\ requests' = Append(requests, Request("GRAPHQL", "USER_QUERY", <<triggerUsername>>))
    /\ pc' = "awaitUser"
    /\ UNCHANGED <<params, log, primary, locals, seen, result>>

GitHubUserResponse(o) ==
    /\ provider = "github" /\ pc = "awaitUser"
    /\ seen' = [seen EXCEPT !["USER_QUERY"] = GraphqlAnswer(o)]
    /\ log' = IF GitHubDisplayNameThrew(o)
              THEN Append(log, LogEntry("warn", <<"Failed to fetch user display name for ">>))
              ELSE log
    /\ result' = IF op = "fetchUserDisplayName" THEN Resolved(GitHubDisplayName(o))
                 ELSE Resolved(GitHubFetchResult(GitHubDisplayName(o)))
    /\ pc' = "done"
    /\ UNCHANGED <<params, requests, primary, locals>>

RestCall == IF op = "createComment" THEN "issues.createComment" ELSE "issues.updateComment"

\* createComment / updateComment up to the await of the REST call
GitHubWriteStart ==
    /\ provider = "github" /\ op \in {"createComment", "updateComment"} /\ pc = "start"
    /\ requests' = IssueUnlessThrown(GitHubInvalid(repository), requests,
                      <<Request("REST", RestCall,
                                Seg(Split(repository), 1) \o <<"/">> \o Seg(Split(repository), 2))>>)
    /\ IF GitHubInvalid(repository)
       THEN /\ result' = Rejected(GitHubInvalidMessage)
            /\ pc' = "done"
       ELSE /\ pc' = "awaitWrite"
            /\ result' = result
    /\ UNCHANGED <<params, log, primary, locals, seen>>

\* the REST call settles: its rejection is the operation's
GitHubWriteResponse(o) ==
    /\ provider = "github" /\ pc = "awaitWrite"
    /\ seen' = [seen EXCEPT ![RestCall] = RestAnswer(o)]
    /\ result' = IF o.kind = "ok" THEN Resolved(JsVoid)
                 ELSE Rejected(<<"HttpError: ", NumStr(o.status)>>)
    /\ pc' = "done"
    /\ UNCHANGED <<params, requests, log, primary, locals>>

-----------------------------------------------------------------------------
(* The calls tried and the specifications *)

-----------------------------------------------------------------------------
(* Provider factory *)

\* process.env.X || d
EnvOr(v, d) == IF v # Unset /\ v[1] # "" THEN v[1] ELSE d

\* GitHub's URL whatever the type
DefaultApiUrlOfGitHub(type) == "https://api.github.com"

DefaultApiUrl(type) ==
    IF type = "github" THEN "https://api.github.com" ELSE "https://forgejo.example.com/api/v1"

DefaultServerUrl(type) ==
    IF type = "github" THEN "https://github.com" ELSE "https://forgejo.example.com"

MissingClientMessage == <<"Octokits instance is required for GitHub provider">>
UnknownTypeMessage(type) == <<"Unknown Git forge provider type: ", type>>
MissingTokenMessage ==
    <<"Authentication token is required (GITHUB_TOKEN environment variable)">>

\* new GitHubProvider(octokits, config) / new ForgejoProvider(config)
Constructed(class, cfg) == [threw |-> FALSE, provider |-> class, config |-> cfg]

\* GitHubProvider.getProviderType / ForgejoProvider.getProviderType
getProviderType(class) ==
    CASE class = "github" -> "github"
      [] class = "forgejo" -> "forgejo"

\* the client handle never asked for
createGitForgeProviderAnyClient(type, cfg, client) ==
    CASE type = "github" -> Constructed("github", cfg)
      [] type = "forgejo" -> Constructed("forgejo", cfg)
      [] OTHER -> Threw(UnknownTypeMessage(type))

createGitForgeProvider(type, cfg, client) ==
    CASE type = "github" ->
            IF ~client THEN Threw(MissingClientMessage) ELSE Constructed("github", cfg)
      [] type = "forgejo" -> Constructed("forgejo", cfg)
      [] OTHER -> Threw(UnknownTypeMessage(type))

\* the token never asked for
createGitForgeProviderFromEnvAnyToken(e, client) ==
    LET type == EnvOr(e.FORGE_TYPE, "github")
    IN createGitForgeProvider(type,
            [type |-> type,
             apiUrl |-> EnvOr(e.FORGE_API_URL, DefaultApiUrl(type)),
             serverUrl |-> EnvOr(e.FORGE_SERVER_URL, DefaultServerUrl(type)),
             token |-> EnvOr(e.GITHUB_TOKEN, "")],
            client)

createGitForgeProviderFromEnv(e, client) ==
    LET type == EnvOr(e.FORGE_TYPE, "github")
        apiUrl_ == EnvOr(e.FORGE_API_URL, DefaultApiUrl(type))
        serverUrl == EnvOr(e.FORGE_SERVER_URL, DefaultServerUrl(type))
        token == EnvOr(e.GITHUB_TOKEN, "")
    IN IF token = "" THEN Threw(MissingTokenMessage)
       ELSE createGitForgeProvider(type,
                [type |-> type, apiUrl |-> apiUrl_, serverUrl |-> serverUrl, token |-> token],
                client)

\* the factory returned r: the adapter constructed holds the config it was given
FactoryReturned(r) ==
    /\ IF r.threw
       THEN /\ result' = Rejected(r.error)
            /\ UNCHANGED <<provider, apiUrl, config, forgeType>>
       ELSE /\ result' = Resolved([tag |-> "provider", type |-> getProviderType(r.provider)])
            /\ provider' = r.provider
            /\ config' = r.config
            /\ apiUrl' = r.config.apiUrl
            /\ forgeType' = r.config.type
    /\ pc' = "done"
    /\ UNCHANGED <<op, repository, isPR, triggerUsername, env, octokits, suspended,
                   requests, log, primary, locals, seen>>

CreateGitForgeProviderCall ==
    /\ op = "createGitForgeProvider" /\ pc = "start"
    /\ FactoryReturned(createGitForgeProvider(forgeType, config, octokits))

CreateGitForgeProviderFromEnvCall ==
    /\ op = "createGitForgeProviderFromEnv" /\ pc = "start"
    /\ FactoryReturned(createGitForgeProviderFromEnv(env, octokits))

-----------------------------------------------------------------------------
(* The configuration module and the unified fetcher *)

\* the module constants, computed from process.env e when the module is loaded
GITHUB_API_URL(e) == EnvOr(e.GITHUB_API_URL, "https://api.github.com")
GITHUB_SERVER_URL(e) == EnvOr(e.GITHUB_SERVER_URL, "https://github.com")
FORGE_TYPE(e) == EnvOr(e.FORGE_TYPE, "github")

FORGE_API_URL(e) ==
    EnvOr(e.FORGE_API_URL,
          IF FORGE_TYPE(e) = "github" THEN GITHUB_API_URL(e)
          ELSE "https://forgejo.example.com/api/v1")

FORGE_SERVER_URL(e) ==
    EnvOr(e.FORGE_SERVER_URL,
          IF FORGE_TYPE(e) = "github" THEN GITHUB_SERVER_URL(e)
          ELSE "https://forgejo.example.com")

\* getForgeApiUrl(forgeType?): forgeType is "" when the argument is left out
getForgeApiUrl(e, forgeType_) ==
    LET type == IF forgeType_ # "" THEN forgeType_ ELSE FORGE_TYPE(e)
    IN IF type = "github" THEN GITHUB_API_URL(e) ELSE FORGE_API_URL(e)

getForgeServerUrl(e, forgeType_) ==
    LET type == IF forgeType_ # "" THEN forgeType_ ELSE FORGE_TYPE(e)
    IN IF type = "github" THEN GITHUB_SERVER_URL(e) ELSE FORGE_SERVER_URL(e)

\* fetchForgeData up to its await: the client is made when FORGE_TYPE is
\* "github", the adapter comes from the environment, and the call goes on as
\* the adapter's fetchData
FetchForgeDataStart ==
    /\ op = "fetchForgeData" /\ pc = "start"
    /\ octokits' = (FORGE_TYPE(env) = "github")
    /\ LET r == createGitForgeProviderFromEnv(env, octokits')
       IN IF r.threw
          THEN /\ result' = Rejected(r.error)
               /\ pc' = "done"
               /\ UNCHANGED <<provider, apiUrl, config, forgeType>>
          ELSE /\ provider' = r.provider
               /\ config' = r.config
               /\ apiUrl' = r.config.apiUrl
               /\ forgeType' = r.config.type
               /\ pc' = "awaitFetchData"
               /\ result' = result
    /\ UNCHANGED <<op, repository, isPR, triggerUsername, env, suspended,
                   requests, log, primary, locals, seen>>

-----------------------------------------------------------------------------
(* Two calls in flight on one Forgejo adapter *)

\* what a call owns: its arguments, the await it is suspended at, its local
\* variables and the promise it returned
Frame(o, r, pr, t, at, reqs, lg, prim, item, cs, fs, cms, rvs, rcs, rd, cd, sha, sn, res) ==
    [tag |-> "frame", op |-> o, repository |-> r, isPR |-> pr, triggerUsername |-> t,
     pc |-> at, requests |-> reqs, log |-> lg, primary |-> prim, itemData |-> item,
     commits |-> cs, files |-> fs, comments |-> cms, reviews |-> rvs,
     reviewComments |-> rcs, reviewData |-> rd, contextData |-> cd,
     changedFilesWithSHA |-> sha, seen |-> sn, result |-> res]

\* the frame of a call that has been made and has not run yet
InvokedFrame(o, r, pr, t) ==
    Frame(o, r, pr, t, "start", <<>>, <<>>, NoResponses, NoData, <<>>, <<>>, <<>>, <<>>,
          <<>>, JsNull, NoData, <<>>, [e \in Endpoints |-> Unanswered], Pending)

\* the running call waits (it is at an await, or it is done) and the event loop
\* resumes the other call; the adapter instance is shared, the frames are not
Yield ==
    /\ suspended.tag = "frame"
    /\ pc # "start"
    /\ suspended.pc # "done"
    /\ suspended' = Frame(op, repository, isPR, triggerUsername, pc, requests, log, primary,
                          itemData, commits, files, comments, reviews, reviewComments,
                          reviewData, contextData, changedFilesWithSHA, seen, result)
    /\ op' = suspended.op /\ repository' = suspended.repository /\ isPR' = suspended.isPR
    /\ triggerUsername' = suspended.triggerUsername
    /\ pc' = suspended.pc /\ requests' = suspended.requests /\ log' = suspended.log
    /\ primary' = suspended.primary /\ itemData' = suspended.itemData
    /\ commits' = suspended.commits /\ files' = suspended.files
    /\ comments' = suspended.comments /\ reviews' = suspended.reviews
    /\ reviewComments' = suspended.reviewComments /\ reviewData' = suspended.reviewData
    /\ contextData' = suspended.contextData
    /\ changedFilesWithSHA' = suspended.changedFilesWithSHA
    /\ seen' = suspended.seen /\ result' = suspended.result
    /\ UNCHANGED <<provider, apiUrl, env, octokits, forgeType, config>>

\* the calls made on the adapter
CallShapes ==
    {[op |-> "fetchData", isPR |-> TRUE, triggerUsername |-> Login],
     [op |-> "fetchData", isPR |-> FALSE, triggerUsername |-> ""],
     [op |-> "fetchUserDisplayName", isPR |-> TRUE, triggerUsername |-> Login],
     [op |-> "createComment", isPR |-> TRUE, triggerUsername |-> ""],
     [op |-> "updateComment", isPR |-> TRUE, triggerUsername |-> ""]}

\* what the backend answers while two calls are in flight
ConcurrentPull == HealthyPull \cup {NotFound}
ConcurrentIssue == HealthyIssue \cup {NetError}
ConcurrentComments == HealthyComments \cup {ServerError}
ConcurrentReviews == HealthyReviews
ConcurrentReviewComments == HealthyReviewComments \cup {NetError}
ConcurrentUser == HealthyUser \cup {NetError}
ConcurrentWrite == HealthyWrite

ConcurrentOutcomes(key) ==
    CASE key = "pull" -> ConcurrentPull
      [] key = "issue" -> ConcurrentIssue
      [] key = "commits" -> HealthyCommits
      [] key = "files" -> HealthyFiles
      [] key = "comments" -> ConcurrentComments
      [] key = "reviews" -> ConcurrentReviews
      [] key = "reviewComments" -> ConcurrentReviewComments
      [] key = "user" -> ConcurrentUser
      [] key = "write" -> ConcurrentWrite

ValidRepository == <<"o", "/", "o">>
SomeRepositories == {ValidRepository, <<"o">>, <<"o", "/">>, <<"o", "/", "o", "/", "o">>}

ForgejoApiUrl == "https://forgejo.example.com/api/v1"

HashChoices == UNION {[1..n -> HashOutcomes] : n \in 0..(MaxItems + 1)}

\* one call of one operation, the backend free to answer anything
Init ==
    \E p \in {"github", "forgejo"}, o \in Operations, r \in SomeRepositories,
       pr \in BOOLEAN, t \in {"", Login}, url \in {"", ForgejoApiUrl} :
        /\ o # "fetchData" => pr
        /\ o = "fetchUserDisplayName" => t = Login /\ r = ValidRepository
        /\ o \in {"createComment", "updateComment"} => t = ""
        /\ r # ValidRepository => t = "" /\ url = ForgejoApiUrl
        /\ p = "github" => url = ForgejoApiUrl
        /\ Invoked(p, o, r, pr, t, url)

Next ==
    \/ ForgejoFetchDataStart
    \/ \E key \in PrimaryEndpoints :
         \E o \in PrimaryOutcomes(key) : ForgejoPrimaryResponse(key, o)
    \/ ForgejoJoinPrimary
    \/ \E o \in ReviewsOutcomes : ForgejoReviewsResponse(o)
    \/ \E o \in ReviewCommentsOutcomes : ForgejoReviewCommentsResponse(o)
    \/ ForgejoFetchUserDisplayNameStart
    \/ \E o \in UserOutcomes : ForgejoUserResponse(o)
    \/ ForgejoWriteStart
    \/ \E o \in WriteOutcomes : ForgejoWriteResponse(o)
    \/ GitHubFetchDataStart
    \/ \E o \in AnyItemQueryOutcomes, hashes \in HashChoices :
         GitHubGraphqlResponse(o, hashes)
    \/ GitHubImagesDownloaded
    \/ GitHubFetchUserDisplayNameStart
    \/ \E o \in UserQueryOutcomes : GitHubUserResponse(o)
    \/ GitHubWriteStart
    \/ \E o \in RestOutcomes : GitHubWriteResponse(o)

Spec == Init /\ [][Next]_vars

\* every repository string, against a healthy backend
InitRepo ==
    \E p \in {"github", "forgejo"}, o \in {"fetchData", "createComment", "updateComment"},
       r \in RepoStrings, pr \in BOOLEAN, t \in {"", Login} :
        /\ o # "fetchData" => pr /\ t = ""
        /\ Invoked(p, o, r, pr, t, ForgejoApiUrl)

NextRepo ==
    \/ ForgejoFetchDataStart
    \/ \E key \in PrimaryEndpoints :
         \E o \in HealthyOutcomes(key) : ForgejoPrimaryResponse(key, o)
    \/ ForgejoJoinPrimary
    \/ \E o \in HealthyOutcomes("reviews") : ForgejoReviewsResponse(o)
    \/ \E o \in HealthyOutcomes("reviewComments") : ForgejoReviewCommentsResponse(o)
    \/ \E o \in HealthyOutcomes("user") : ForgejoUserResponse(o)
    \/ ForgejoWriteStart
    \/ \E o \in HealthyOutcomes("write") : ForgejoWriteResponse(o)
    \/ GitHubFetchDataStart
    \/ \E o \in HealthyItemQueryOutcomes : GitHubGraphqlResponse(o, NoHashes)
    \/ GitHubImagesDownloaded
    \/ \E o \in HealthyUserQueryOutcomes : GitHubUserResponse(o)
    \/ GitHubWriteStart
    \/ \E o \in HealthyRestOutcomes : GitHubWriteResponse(o)

SpecRepo == InitRepo /\ [][NextRepo]_vars

\* two calls made on one Forgejo adapter, the second not yet run
InitConcurrent ==
    \E a \in CallShapes, b \in CallShapes :
        /\ InvokedCall("forgejo", a.op, ValidRepository, a.isPR, a.triggerUsername,
                       ForgejoApiUrl)
        /\ suspended = InvokedFrame(b.op, ValidRepository, b.isPR, b.triggerUsername)

NextConcurrent ==
    \/ ForgejoFetchDataStart
    \/ \E key \in PrimaryEndpoints :
         \E o \in ConcurrentOutcomes(key) : ForgejoPrimaryResponse(key, o)
    \/ ForgejoJoinPrimary
    \/ \E o \in ConcurrentOutcomes("reviews") : ForgejoReviewsResponse(o)
    \/ \E o \in ConcurrentOutcomes("reviewComments") : ForgejoReviewCommentsResponse(o)
    \/ ForgejoFetchUserDisplayNameStart
    \/ \E o \in ConcurrentOutcomes("user") : ForgejoUserResponse(o)
    \/ ForgejoWriteStart
    \/ \E o \in ConcurrentOutcomes("write") : ForgejoWriteResponse(o)
    \/ Yield

SpecConcurrent == InitConcurrent /\ [][NextConcurrent]_vars

\* the mapper called on its own, on every small pull-request payload
ReviewLists ==
    {[i \in DOMAIN q |-> ForgejoReviewOf(q[i])] : q \in InjectiveSeqs(1..MaxMapReviews, MaxMapReviews)}

\* the sample review comments: every combination of line (a number, none, 0)
\* and original_line (none, a number)
ReviewCommentIds == 1..6

ReviewCommentLists ==
    {[i \in DOMAIN q |-> ForgejoReviewCommentOf(q[i])] :
        q \in UNION {[1..k -> ReviewCommentIds] : k \in 0..MaxReviews}}

\* the mapper called with all its arguments, or with the payload alone
MapOperations == {"mapForgejoPullRequest", "mapForgejoPullRequestMinimal"}

InitMap ==
    /\ provider = "forgejo" /\ op \in MapOperations
    /\ repository = ValidRepository /\ isPR = TRUE
    /\ triggerUsername = "" /\ apiUrl = ForgejoApiUrl
    /\ env = NoEnv /\ octokits = FALSE /\ forgeType = "forgejo" /\ config = NoData
    /\ suspended = NoFrame
    /\ pc = "start"
    /\ requests = <<>> /\ log = <<>>
    /\ primary = NoResponses
    /\ itemData \in ForgejoPRs
    /\ \E n \in 0..MaxItems :
        /\ commits = [i \in 1..n |-> ForgejoCommitOf(i)]
        /\ files = [i \in 1..n |-> ForgejoFileOf(i)]
        /\ comments = [i \in 1..n |-> ForgejoCommentOf(i)]
    /\ reviews \in ReviewLists
    /\ reviewComments \in ReviewCommentLists
    /\ op = "mapForgejoPullRequestMinimal" =>
            /\ commits = <<>> /\ files = <<>> /\ comments = <<>>
            /\ reviews = <<>> /\ reviewComments = <<>>
    /\ reviewData = JsNull
    /\ contextData = NoData /\ changedFilesWithSHA = <<>>
    /\ seen = [e \in Endpoints |-> Unanswered]
    /\ result = Pending

MapPullRequestCall ==
    /\ op = "mapForgejoPullRequest" /\ pc = "start"
    /\ contextData' = mapForgejoPullRequest(itemData, commits, files, comments,
                                            reviews, reviewComments)
    /\ pc' = "done"
    /\ UNCHANGED <<params, requests, log, primary, itemData, commits, files, comments,
                   reviews, reviewComments, reviewData, changedFilesWithSHA, seen, result>>

\* mapForgejoPullRequest(pr): every list parameter takes its default
MapMinimalPullRequestCall ==
    /\ op = "mapForgejoPullRequestMinimal" /\ pc = "start"
    /\ contextData' = mapForgejoPullRequest(itemData, DefaultList, DefaultList, DefaultList,
                                            DefaultList, DefaultList)
    /\ pc' = "done"
    /\ UNCHANGED <<params, requests, log, primary, itemData, commits, files, comments,
                   reviews, reviewComments, reviewData, changedFilesWithSHA, seen, result>>

NextMap == MapPullRequestCall \/ MapMinimalPullRequestCall

SpecMap == InitMap /\ [][NextMap]_vars

\* the values an environment variable may have
EnvValues(S) == {Unset, EnvSet("")} \cup {EnvSet(x) : x \in S}

Envs ==
    [FORGE_TYPE : EnvValues({"github", "forgejo", "gitlab"}),
     FORGE_API_URL : EnvValues({"https://git.example.org/api/v1"}),
     FORGE_SERVER_URL : EnvValues({"https://git.example.org"}),
     GITHUB_TOKEN : EnvValues({"test-token"}),
     GITHUB_API_URL : EnvValues({"https://ghe.example.com/api/v3"}),
     GITHUB_SERVER_URL : EnvValues({"https://ghe.example.com"})]

ExplicitConfigs(type) ==
    {[type |-> type, apiUrl |-> "https://code.example.net/api/v1",
      serverUrl |-> "https://code.example.net", token |-> "explicit-token"],
     [type |-> type, apiUrl |-> "", serverUrl |-> "", token |-> ""]}

SelectorOperations ==
    {"createGitForgeProvider", "createGitForgeProviderFromEnv", "fetchForgeData"}

\* one call of the factory, no adapter constructed yet
InitSelector ==
    /\ op \in SelectorOperations
    /\ provider = "none" /\ repository = <<>> /\ isPR = FALSE
    /\ triggerUsername = "" /\ apiUrl = ""
    /\ env \in Envs /\ octokits \in BOOLEAN
    /\ op = "fetchForgeData" => ~octokits
    /\ suspended = NoFrame
    /\ IF op = "createGitForgeProvider"
       THEN /\ forgeType \in {"github", "forgejo", "gitlab"}
            /\ config \in ExplicitConfigs(forgeType)
       ELSE forgeType = "" /\ config = NoData
    /\ pc = "start"
    /\ requests = <<>> /\ log = <<>>
    /\ primary = NoResponses
    /\ itemData = NoData /\ commits = <<>> /\ files = <<>> /\ comments = <<>>
    /\ reviews = <<>> /\ reviewComments = <<>> /\ reviewData = JsNull
    /\ contextData = NoData /\ changedFilesWithSHA = <<>>
    /\ seen = [e \in Endpoints |-> Unanswered]
    /\ result = Pending

NextSelector ==
    \/ CreateGitForgeProviderCall
    \/ CreateGitForgeProviderFromEnvCall
    \/ FetchForgeDataStart

SpecSelector == InitSelector /\ [][NextSelector]_vars

-----------------------------------------------------------------------------
(* Properties *)

Done == pc = "done"
ResolvedNow == Done /\ result.state = "resolved"
RejectedNow == Done /\ result.state = "rejected"

RepoOperations == {"fetchData", "createComment", "updateComment"}

\* exactly two non-empty segments on "/"
TwoNonEmptySegments(r) ==
    LET parts == Split(r)
    IN Len(parts) = 2 /\ parts[1] # <<>> /\ parts[2] # <<>>

IsInvalidRepositoryFormat(e) ==
    Len(e) > 0 /\ e[1] \in {"Invalid repository format: ",
                            "Invalid repository format. Expected 'owner/repo'."}

\* the call has been rejected as an invalid repository format
RejectedAsInvalid ==
    result.state = "rejected" /\ IsInvalidRepositoryFormat(result.error)

\* C1: once past its validation, an operation of either adapter has rejected
\* the call as an invalid repository format if and only if the repository does
\* not split on "/" into exactly two non-empty segments.
C1_RejectsIffNotTwoSegments ==
    (op \in RepoOperations /\ pc # "start")
        => (RejectedAsInvalid <=> ~TwoNonEmptySegments(repository))

SlashCount(r) == Cardinality({i \in DOMAIN r : r[i] = "/"})

\* C2: the two adapters decide alike: a call on one adapter is rejected as an
\* invalid repository format exactly when the other adapter's validation
\* rejects the same string, and a string without exactly one "/" is rejected.
C2_AdaptersDecideAlike ==
    (op \in RepoOperations /\ pc # "start")
        => /\ provider = "github" => (RejectedAsInvalid <=> Len(Split(repository)) # 2)
           /\ provider = "forgejo" =>
                (RejectedAsInvalid <=> (Falsy(Split(repository), 1) \/ Falsy(Split(repository), 2)))
           /\ SlashCount(repository) # 1 => RejectedAsInvalid

\* C3: a Forgejo fetchData, createComment or updateComment whose repository
\* fails the format validation (it does not split into two parts) is rejected
\* with a message containing "Invalid repository format: <repository>", and no
\* request has been issued at any point of the call.
C3_InvalidRejectedBeforeAnyRequest ==
    (provider = "forgejo" /\ op \in RepoOperations /\ Len(Split(repository)) # 2
        /\ pc # "start")
        => /\ RejectedNow
           /\ Contains(result.error, <<"Invalid repository format: ">> \o repository)
           /\ requests = <<>>

C3_Witness ==
    /\ provider = "forgejo" /\ op = "createComment" /\ RejectedNow
    /\ repository = <<"o", "/", "o", "/", "o">>
    /\ requests = <<>>

UserEndpoint == IF provider = "forgejo" THEN "user" ELSE "USER_QUERY"

\* the lookup failed or found no user: anything but a 2xx answer carrying a body
LookupFailed == seen[UserEndpoint].kind # "2xx"

\* C4: fetchUserDisplayName never throws: it resolves with a string or null for
\* every backend outcome and a missing apiUrl, and with null whenever the lookup
\* failed or the user does not exist.
C4_DisplayNameNeverThrows ==
    (op = "fetchUserDisplayName" /\ Done)
        => /\ result.state = "resolved"
           /\ result.value.tag \in {"string", "null"}
           /\ LookupFailed => result.value.tag = "null"

C4_Witness ==
    /\ op = "fetchUserDisplayName" /\ provider = "forgejo" /\ ResolvedNow
    /\ seen["user"].kind = "neterr" /\ result.value.tag = "null"

ForgejoFetch ==
    provider = "forgejo" /\ op = "fetchData" /\ TwoNonEmptySegments(repository)

PrimaryKeySet == {PrimaryKeys(isPR)[i] : i \in DOMAIN PrimaryKeys(isPR)}

FailureKinds == {"non2xx", "neterr"}

\* C5: a Forgejo fetchData in which a primary request (metadata, commits,
\* files, comments; metadata, comments for an issue) got a non-2xx response or
\* a network error is rejected.
C5_PrimaryFailureRejects ==
    (ForgejoFetch /\ Done /\ \E k \in PrimaryKeySet : seen[k].kind \in FailureKinds)
        => result.state = "rejected"

PrimaryAllOk == \A k \in PrimaryKeySet : seen[k].kind = "2xx"

\* C6: a Forgejo pull-request fetchData whose four primary requests returned
\* 2xx resolves, whatever the reviews request, the review-comments request and
\* the display-name lookup did.
C6_SecondaryOutageCannotFail ==
    (ForgejoFetch /\ isPR /\ Done /\ PrimaryAllOk) => result.state = "resolved"

C6_Witness ==
    /\ ForgejoFetch /\ isPR /\ ResolvedNow /\ PrimaryAllOk
    /\ seen["reviews"].kind = "non2xx"
    /\ seen["reviewComments"].kind = "neterr"
    /\ seen["user"].kind = "neterr"

\* C7: a Forgejo pull-request fetchData in which the reviews request or the
\* review-comments request failed (non-2xx or network error) returns empty
\* review data: contextData.reviews.nodes is empty and reviewData is null.
C7_ReviewFailureGivesEmptyReviews ==
    (ForgejoFetch /\ isPR /\ ResolvedNow
        /\ (seen["reviews"].kind \in FailureKinds \/ seen["reviewComments"].kind \in FailureKinds))
        => /\ result.value.contextData.reviews.nodes = <<>>
           /\ "nodes" \notin DOMAIN result.value.reviewData

ItemEndpoint == IF provider = "forgejo" THEN ItemKey ELSE ItemQuery

ItemNotFound ==
    seen[ItemEndpoint].kind = "notfound"
        \/ (seen[ItemEndpoint].kind = "non2xx" /\ seen[ItemEndpoint].status = 404)

ItemOtherFailure == seen[ItemEndpoint].kind = "non2xx" /\ seen[ItemEndpoint].status # 404

\* C8: fetchData reports distinguishable errors: when the numbered item does not
\* exist the rejection says so (not found / 404), and on any other non-2xx
\* response the rejection carries the backend's status code and message.
C8_DistinguishableErrors ==
    (op = "fetchData" /\ TwoNonEmptySegments(repository) /\ Done)
        => /\ ItemNotFound =>
                /\ result.state = "rejected"
                /\ \E t \in {"404", "not found", " not found"} : Contains(result.error, <<t>>)
           /\ ItemOtherFailure =>
                /\ result.state = "rejected"
                /\ Contains(result.error, <<NumStr(seen[ItemEndpoint].status)>>)
                /\ Contains(result.error, seen[ItemEndpoint].message)

ForgejoWrite ==
    /\ provider = "forgejo" /\ op \in {"createComment", "updateComment"}
    /\ TwoNonEmptySegments(repository)

\* C9: for a valid repository, a Forgejo createComment / updateComment that the
\* backend answered non-2xx is rejected with a message containing the status
\* code and the backend's message ("Unknown error" when none) and, for
\* updateComment, the comment ID; answered 2xx with a JSON body it resolves
\* without a value.
C9_WriteFailureCarriesStatus ==
    (ForgejoWrite /\ Done)
        => /\ seen[op].kind \in {"non2xx", "non2xx-nobody"} =>
                /\ result.state = "rejected"
                /\ Contains(result.error, <<NumStr(seen[op].status)>>)
                /\ Contains(result.error,
                            IF seen[op].message # <<>> THEN seen[op].message
                            ELSE <<"Unknown error">>)
                /\ op = "updateComment" => Contains(result.error, <<CommentId>>)
           /\ seen[op].kind = "2xx" => result.state = "resolved" /\ result.value = JsVoid

\* C10: mapForgejoPullRequest keeps the number and order of the reviews, puts
\* every review comment, in input order, under the first review, leaves every
\* other review without comments, and drops the comments when there is no review.
C10_CommentsPooledUnderFirstReview ==
    (op = "mapForgejoPullRequest" /\ Done)
        => LET nodes == contextData.reviews.nodes
           IN /\ Len(nodes) = Len(reviews)
              /\ \A i \in DOMAIN nodes : nodes[i].id = NumStr(reviews[i].id)
              /\ Len(reviews) > 0 =>
                    /\ Len(nodes[1].comments.nodes) = Len(reviewComments)
                    /\ \A j \in DOMAIN reviewComments :
                          nodes[1].comments.nodes[j].id = NumStr(reviewComments[j].id)
              /\ \A i \in DOMAIN nodes : i > 1 => nodes[i].comments.nodes = <<>>

C10_Witness ==
    /\ op = "mapForgejoPullRequest" /\ Done
    /\ Len(reviews) = 2 /\ Len(reviewComments) = 2
    /\ reviews[1].id > reviews[2].id
    /\ Len(contextData.reviews.nodes[1].comments.nodes) = 2
    /\ contextData.reviews.nodes[2].comments.nodes = <<>>


\* Forgejo writes answered with a JSON body: the rejection then carries the
\* status, the message and the comment ID
WriteFailureCarriesStatusOnJson ==
    (ForgejoWrite /\ Done)
        => /\ seen[op].kind = "non2xx" =>
                /\ result.state = "rejected"
                /\ Contains(result.error, <<NumStr(seen[op].status)>>)
                /\ Contains(result.error,
                            IF seen[op].message # <<>> THEN seen[op].message
                            ELSE <<"Unknown error">>)
                /\ op = "updateComment" => Contains(result.error, <<CommentId>>)
           /\ seen[op].kind = "2xx" => result.state = "resolved" /\ result.value = JsVoid

\* the line the fallback chain gives a backend review comment: its line when
\* it has one (0 included), else its original_line, else null
LineByFallback(comment) ==
    IF comment.line # <<>> THEN comment.line
    ELSE IF comment.original_line # <<>> THEN comment.original_line
    ELSE <<>>

\* C11: every mapped review comment has the line of the fallback chain: the
\* backend comment's line when it has one (any number, 0 included), otherwise
\* its original_line, otherwise null.
C11_LineFallbackChain ==
    (op = "mapForgejoPullRequest" /\ Done /\ Len(reviews) > 0)
        => \A j \in DOMAIN reviewComments :
              contextData.reviews.nodes[1].comments.nodes[j].line
                  = LineByFallback(reviewComments[j])

SeqRange(q) == {q[i] : i \in DOMAIN q}

\* every Author of a unified pull request or issue: the item's author, the
\* comment authors and, for a pull request, the review and review-comment authors
Authors(cd, pr) ==
    {cd.author}
        \cup {c.author : c \in SeqRange(cd.comments.nodes)}
        \cup (IF pr
              THEN {r.author : r \in SeqRange(cd.reviews.nodes)}
                     \cup UNION {{c.author : c \in SeqRange(r.comments.nodes)} :
                                    r \in SeqRange(cd.reviews.nodes)}
              ELSE {})

\* the backend accounts that have no display name
NoDisplayName(login) == login \in {ForgejoUserBare.login, GitHubAuthorBare.login}

AuthorWellFormed(a) ==
    /\ a.login # ""
    /\ a.name # ""
    /\ NoDisplayName(a.login) => a.name = a.login

\* C12: every Author of every FetchResult has a login and a defined name, and
\* the name is the login when the backend record has no display name.
C12_AuthorsHaveLoginAndName ==
    (op = "fetchData" /\ ResolvedNow)
        => \A a \in Authors(result.value.contextData, isPR) : AuthorWellFormed(a)

\* the same for the Forgejo adapter alone
AuthorsHaveLoginAndNameForgejo ==
    (provider = "forgejo" /\ op = "fetchData" /\ ResolvedNow)
        => \A a \in Authors(result.value.contextData, isPR) : AuthorWellFormed(a)

LowerReviewStates ==
    {"approved", "changes_requested", "request_changes", "commented", "comment",
     "pending", "dismissed"}

StatesNormalized(cd, pr) ==
    IF pr
    THEN /\ cd.state \in {"open", "closed", "merged"}
         /\ \A r \in SeqRange(cd.reviews.nodes) : r.state \in LowerReviewStates
    ELSE cd.state \in {"open", "closed"}

\* C13: in every FetchResult the state fields are lower case: a pull request's
\* state is open, closed or merged, an issue's is open or closed, and every
\* review's state is the lower-cased backend state.
C13_StatesLowerCase ==
    (op = "fetchData" /\ ResolvedNow) => StatesNormalized(result.value.contextData, isPR)

\* the same for the Forgejo adapter alone
StatesLowerCaseForgejo ==
    (provider = "forgejo" /\ op = "fetchData" /\ ResolvedNow)
        => StatesNormalized(result.value.contextData, isPR)

PullRequestFields ==
    {"title", "body", "author", "baseRefName", "headRefName", "headRefOid", "createdAt",
     "additions", "deletions", "state", "commits", "files", "comments", "reviews"}

\* C14: mapping a minimal pull-request payload (no list supplied, additions and
\* deletions absent) gives empty commits, files, comments and reviews, a commit
\* count of 0, additions = 0 and deletions = 0, and every field of the unified
\* pull request is there.
C14_MinimalPayloadGivesEmptyCollections ==
    (op = "mapForgejoPullRequestMinimal" /\ Done
        /\ itemData.additions = <<>> /\ itemData.deletions = <<>>)
        => /\ contextData.commits.nodes = <<>> /\ contextData.commits.totalCount = 0
           /\ contextData.files.nodes = <<>>
           /\ contextData.comments.nodes = <<>>
           /\ contextData.reviews.nodes = <<>>
           /\ contextData.additions = 0 /\ contextData.deletions = 0
           /\ DOMAIN contextData = PullRequestFields
           /\ contextData.author.login # "" /\ contextData.author.name # ""

C14_Witness ==
    /\ op = "mapForgejoPullRequestMinimal" /\ Done
    /\ itemData.additions = <<>> /\ itemData.deletions = <<>>
    /\ contextData.additions = 0 /\ contextData.reviews.nodes = <<>>

\* createGitForgeProvider has been called (directly, or by the environment
\* variant once it had a token) and has returned or thrown
FactoryCalled ==
    /\ Done
    /\ \/ op = "createGitForgeProvider"
       \/ op = "createGitForgeProviderFromEnv" /\ result # Rejected(MissingTokenMessage)

\* the type createGitForgeProvider was asked for
RequestedType ==
    IF op = "createGitForgeProvider" THEN forgeType
    ELSE IF env.FORGE_TYPE \in {Unset, EnvSet("")} THEN "github" ELSE env.FORGE_TYPE[1]

\* C15: createGitForgeProvider fails with the missing-client error exactly when
\* the type is github and no client is supplied; for forgejo it succeeds with or
\* without a client; for any other type it fails with the unknown-type error;
\* the provider it returns reports the requested type.
C15_FactoryDispatch ==
    FactoryCalled
        => /\ (result = Rejected(MissingClientMessage))
                <=> (RequestedType = "github" /\ ~octokits)
           /\ RequestedType = "forgejo" => result.state = "resolved"
           /\ RequestedType \notin {"github", "forgejo"}
                => result = Rejected(<<"Unknown Git forge provider type: ", RequestedType>>)
           /\ result.state = "resolved" => result.value.type = RequestedType

C15_Witness ==
    /\ op = "createGitForgeProvider" /\ Done
    /\ forgeType = "github" /\ ~octokits
    /\ result = Rejected(MissingClientMessage)

NoToken == env.GITHUB_TOKEN \in {Unset, EnvSet("")}

\* C16: createGitForgeProviderFromEnv without a token (unset or empty) fails
\* with the missing-token error, whatever FORGE_TYPE is and whether or not a
\* client is supplied, with no adapter constructed and no request issued.
C16_MissingTokenBeforeConstruction ==
    (op = "createGitForgeProviderFromEnv" /\ Done /\ NoToken)
        => /\ result = Rejected(MissingTokenMessage)
           /\ provider = "none"
           /\ requests = <<>>

C16_Witness ==
    /\ op = "createGitForgeProviderFromEnv" /\ Done
    /\ env.GITHUB_TOKEN = EnvSet("") /\ env.FORGE_TYPE = EnvSet("gitlab") /\ octokits
    /\ result = Rejected(MissingTokenMessage) /\ provider = "none"

\* a variable counts as set when it has a non-empty value
IsSet(v) == v # Unset /\ v # EnvSet("")

\* C17: the configuration the selector ends with: an explicit config is taken
\* as it is, whatever the environment says; otherwise each field is the
\* environment variable when set and the built-in default when not: type
\* github, GitHub's public URLs for github, the forgejo.example.com placeholders
\* for forgejo.
C17_ConfigPrecedence ==
    ResolvedNow =>
        /\ op = "createGitForgeProvider" =>
              /\ config \in ExplicitConfigs(forgeType)
              /\ apiUrl = config.apiUrl
        /\ op = "createGitForgeProviderFromEnv" =>
              /\ config.type = (IF IsSet(env.FORGE_TYPE) THEN env.FORGE_TYPE[1] ELSE "github")
              /\ config.token = env.GITHUB_TOKEN[1]
              /\ IsSet(env.FORGE_API_URL) => config.apiUrl = env.FORGE_API_URL[1]
              /\ IsSet(env.FORGE_SERVER_URL) => config.serverUrl = env.FORGE_SERVER_URL[1]
              /\ (~IsSet(env.FORGE_API_URL) /\ config.type = "github")
                    => config.apiUrl = "https://api.github.com"
              /\ (~IsSet(env.FORGE_API_URL) /\ config.type = "forgejo")
                    => config.apiUrl = "https://forgejo.example.com/api/v1"
              /\ (~IsSet(env.FORGE_SERVER_URL) /\ config.type = "github")
                    => config.serverUrl = "https://github.com"
              /\ (~IsSet(env.FORGE_SERVER_URL) /\ config.type = "forgejo")
                    => config.serverUrl = "https://forgejo.example.com"

C17_Witness ==
    /\ op = "createGitForgeProviderFromEnv" /\ ResolvedNow
    /\ env.FORGE_TYPE = EnvSet("forgejo")
    /\ env.FORGE_API_URL = EnvSet("https://git.example.org/api/v1")
    /\ env.FORGE_SERVER_URL = Unset
    /\ config.apiUrl = "https://git.example.org/api/v1"
    /\ config.serverUrl = "https://forgejo.example.com"

\* the other call's arguments and backend answers are those of the running call
SameCallSameAnswers ==
    /\ suspended.op = op /\ suspended.repository = repository /\ suspended.isPR = isPR
    /\ suspended.triggerUsername = triggerUsername
    /\ suspended.seen = seen

IssuedTo(e) == \E i \in DOMAIN requests : requests[i].endpoint = e
Answered(e) == seen[e].kind # "none"
MappingBegun == "title" \in DOMAIN contextData

\* C19: the order of one Forgejo pull-request fetchData: the four primary
\* requests are all issued before any of their responses is consumed, the
\* reviews request only after the four have completed, the review-comments
\* request only after the reviews request has completed, and the mapping begins
\* only after all the requests issued have finished.
C19_RequestOrder ==
    (ForgejoFetch /\ isPR)
        => /\ (\E k \in PrimaryKeySet : Answered(k)) => \A k \in PrimaryKeySet : IssuedTo(k)
           /\ IssuedTo("reviews") => \A k \in PrimaryKeySet : Answered(k)
           /\ IssuedTo("reviewComments") => Answered("reviews")
           /\ MappingBegun =>
                /\ \A k \in PrimaryKeySet : Answered(k)
                /\ Answered("reviews")
                /\ IssuedTo("reviewComments") => Answered("reviewComments")
           /\ \A i \in DOMAIN requests :
                /\ requests[i].endpoint = "reviews" => i = 5
                /\ requests[i].endpoint = "reviewComments" => i = 6

C19_Witness ==
    /\ ForgejoFetch /\ isPR /\ ResolvedNow /\ MappingBegun
    /\ Len(requests) >= 6
    /\ Answered("reviewComments")

Logged(entry) == \E i \in DOMAIN log : log[i] = entry

ForgejoSoftCall ==
    /\ provider = "forgejo" /\ op \in {"fetchData", "fetchUserDisplayName"}
    /\ TwoNonEmptySegments(repository)

\* C20: no soft failure is silent: when the reviews or the review-comments
\* request returned non-2xx or raised a network error, or the display-name
\* lookup did, a warning / error entry for it has been logged by the time the
\* operation returns.
C20_SoftFailuresLogged ==
    (ForgejoSoftCall /\ Done)
        => /\ (seen["reviews"].kind \in FailureKinds
                 \/ seen["reviewComments"].kind \in FailureKinds) => Logged(ReviewsWarning)
           /\ seen["user"].kind \in FailureKinds => Logged(DisplayNameLog)

\* the same for the failures that raise (network error, body that is not JSON)
RaisedSoftFailuresLogged ==
    (ForgejoSoftCall /\ Done)
        => /\ (seen["reviews"].kind \in {"neterr", "2xx-nobody", "non2xx-nobody"}
                 \/ seen["reviewComments"].kind \in {"neterr", "2xx-nobody", "non2xx-nobody"})
                => Logged(ReviewsWarning)
           /\ seen["user"].kind \in {"neterr", "2xx-nobody", "non2xx-nobody"}
                => Logged(DisplayNameLog)

-----------------------------------------------------------------------------
(* Requests per call, result shape, configuration paths *)

\* C21: no Forgejo operation retries: within one call of fetchData,
\* fetchUserDisplayName, createComment or updateComment no request (method and
\* path) is issued twice, whatever the backend answered.
C21_NoRetry ==
    (provider = "forgejo" /\ op \in Operations)
        => \A i, j \in DOMAIN requests :
              (requests[i].method = requests[j].method /\ requests[i].path = requests[j].path)
                  => i = j

C21_Witness ==
    /\ ForgejoFetch /\ isPR /\ ResolvedNow
    /\ seen["reviews"].kind = "non2xx" /\ seen["reviews"].status = 404
    /\ seen["reviewComments"].kind = "neterr"
    /\ seen["user"].kind = "non2xx"
    /\ Len(requests) = 7

RequestedEndpoints == {requests[i].endpoint : i \in DOMAIN requests}

\* C22: for an issue, Forgejo fetchData requests the issue and the issue
\* comments and never the pull-request, commits, files, reviews or
\* review-comments endpoints; in both adapters the result has no changed files,
\* no changedFilesWithSHA, a null reviewData, and a contextData without files,
\* commits or reviews fields.
C22_IssueFetch ==
    (op = "fetchData" /\ ~isPR)
        => /\ provider = "forgejo" =>
                /\ (RequestedEndpoints \ {"user"}) \subseteq {"issue", "comments"}
                /\ requests # <<>> => {"issue", "comments"} \subseteq RequestedEndpoints
           /\ ResolvedNow =>
                /\ result.value.changedFiles = <<>>
                /\ result.value.changedFilesWithSHA = <<>>
                /\ result.value.reviewData.tag = "null"
                /\ DOMAIN result.value.contextData \cap {"files", "commits", "reviews"} = {}

C22_Witness ==
    /\ ForgejoFetch /\ ~isPR /\ ResolvedNow
    /\ triggerUsername = Login
    /\ RequestedEndpoints = {"issue", "comments", "user"}
    /\ Len(result.value.comments) = MaxItems

\* C23: in the result of a Forgejo pull-request fetch changedFilesWithSHA
\* repeats changedFiles entry by entry (path, additions, deletions, changeType)
\* with sha the head-commit SHA of the pull request, which is
\* contextData.headRefOid; imageUrlMap is empty for every Forgejo fetch.
C23_ForgejoFilesWithSha ==
    (ForgejoFetch /\ ResolvedNow)
        => LET r == result.value
           IN /\ DOMAIN r.imageUrlMap = {}
              /\ isPR =>
                    /\ Len(r.changedFilesWithSHA) = Len(r.changedFiles)
                    /\ \A i \in DOMAIN r.changedFiles :
                          /\ r.changedFilesWithSHA[i].path = r.changedFiles[i].path
                          /\ r.changedFilesWithSHA[i].additions = r.changedFiles[i].additions
                          /\ r.changedFilesWithSHA[i].deletions = r.changedFiles[i].deletions
                          /\ r.changedFilesWithSHA[i].changeType = r.changedFiles[i].changeType
                          /\ r.changedFilesWithSHA[i].sha = seen["pull"].outcome.body.data.head.sha
                          /\ r.changedFilesWithSHA[i].sha = r.contextData.headRefOid

C23_Witness ==
    /\ ForgejoFetch /\ isPR /\ ResolvedNow
    /\ Len(result.value.changedFilesWithSHA) = 2
    /\ result.value.changedFilesWithSHA[1].path # result.value.changedFilesWithSHA[2].path
    /\ result.value.changedFilesWithSHA[2].sha = "def456"

GitHubPullFetched ==
    /\ provider = "github" /\ op = "fetchData" /\ isPR
    /\ seen["PR_QUERY"].kind = "2xx"

\* C24: in a GitHub pull-request fetch changedFilesWithSHA has one entry per
\* changed file, in order; a deleted file is not hashed and gets sha "deleted";
\* any other file gets its computed hash, or "unknown" when hashing threw (and
\* a warning); a hashing failure never rejects the fetch and touches no other
\* file's sha.
C24_GitHubFileHashes ==
    GitHubPullFetched
        => LET fs == seen["PR_QUERY"].outcome.data.files.nodes
               runs == seen["hash-object"].outcome
               shas == IF ResolvedNow THEN result.value.changedFilesWithSHA
                       ELSE changedFilesWithSHA
           IN /\ Done => result.state = "resolved"
              /\ Len(shas) = Len(fs)
              /\ \A i \in DOMAIN fs :
                    /\ shas[i].path = fs[i].path
                    /\ shas[i].changeType = fs[i].changeType
                    /\ IF fs[i].changeType = "DELETED"
                       THEN shas[i].sha = "deleted" /\ runs[i] = "not run"
                       ELSE IF runs[i] = "throws" THEN shas[i].sha = "unknown"
                       ELSE shas[i].sha = runs[i]
                    /\ Logged(HashWarning(fs[i].path)) <=> runs[i] = "throws"

C24_Witness ==
    /\ GitHubPullFetched /\ ResolvedNow
    /\ Len(result.value.changedFilesWithSHA) = 3
    /\ seen["hash-object"].outcome = <<"throws", "not run", "3b18e512">>
    /\ result.value.changedFilesWithSHA[1].sha = "unknown"
    /\ result.value.changedFilesWithSHA[2].sha = "deleted"
    /\ result.value.changedFilesWithSHA[3].sha = "3b18e512"

GitHubFetch ==
    provider = "github" /\ op = "fetchData" /\ TwoNonEmptySegments(repository)

\* C25: a GitHub fetchData makes a single backend round-trip: by the time it
\* returns exactly one request has been issued, the GraphQL query of the item
\* (pull request or issue), also when a trigger username is given.
C25_SingleRoundTrip ==
    (GitHubFetch /\ Done)
        => /\ Len(requests) = 1
           /\ requests[1].method = "GRAPHQL"
           /\ requests[1].endpoint = ItemQuery

\* the same for the calls made without a trigger username
SingleRoundTripWithoutTriggerUser ==
    (GitHubFetch /\ Done /\ triggerUsername = "")
        => /\ Len(requests) = 1
           /\ requests[1].method = "GRAPHQL"
           /\ requests[1].endpoint = ItemQuery

BackendList(k) == seen[k].outcome.body.data.items

\* C26: the result of a Forgejo fetchData is consistent: comments is
\* contextData.comments.nodes; for a pull request changedFiles is
\* contextData.files.nodes and commits.totalCount is the number of commit
\* nodes; and each list has the length and the order of the list the backend
\* returned.
C26_ResultConsistent ==
    (ForgejoFetch /\ ResolvedNow)
        => LET r == result.value
               cd == result.value.contextData
           IN /\ r.comments = cd.comments.nodes
              /\ seen["comments"].kind = "2xx" =>
                    /\ Len(r.comments) = Len(BackendList("comments"))
                    /\ \A i \in DOMAIN r.comments :
                          r.comments[i].id = NumStr(BackendList("comments")[i].id)
              /\ isPR =>
                    /\ r.changedFiles = cd.files.nodes
                    /\ cd.commits.totalCount = Len(cd.commits.nodes)
                    /\ seen["files"].kind = "2xx" =>
                          /\ Len(r.changedFiles) = Len(BackendList("files"))
                          /\ \A i \in DOMAIN r.changedFiles :
                                r.changedFiles[i].path = BackendList("files")[i].filename
                    /\ seen["commits"].kind = "2xx" =>
                          /\ Len(cd.commits.nodes) = Len(BackendList("commits"))
                          /\ \A i \in DOMAIN cd.commits.nodes :
                                cd.commits.nodes[i].commit.oid = BackendList("commits")[i].sha

C26_Witness ==
    /\ ForgejoFetch /\ isPR /\ ResolvedNow
    /\ Len(result.value.comments) = 2
    /\ Len(result.value.changedFiles) = 2
    /\ result.value.contextData.commits.totalCount = 2
    /\ result.value.comments[1].id # result.value.comments[2].id

\* C27: in the result of a Forgejo pull-request fetch reviewData is null
\* exactly when the mapped review list is empty and is contextData.reviews
\* otherwise; review comments fetched without any review leave it null.
C27_ReviewDataNullIffNoReviews ==
    (ForgejoFetch /\ isPR /\ ResolvedNow)
        => LET r == result.value
           IN IF r.contextData.reviews.nodes = <<>>
              THEN "nodes" \notin DOMAIN r.reviewData /\ r.reviewData.tag = "null"
              ELSE "nodes" \in DOMAIN r.reviewData /\ r.reviewData = r.contextData.reviews

C27_Witness ==
    /\ ForgejoFetch /\ isPR /\ ResolvedNow
    /\ seen["reviews"].kind = "2xx" /\ BackendList("reviews") = <<>>
    /\ seen["reviewComments"].kind = "2xx" /\ Len(BackendList("reviewComments")) > 0
    /\ result.value.reviewData.tag = "null"

\* C28: a Forgejo createComment / updateComment that the backend answered 2xx
\* resolves, whatever the response body (JSON, empty, not JSON).
C28_WriteSucceedsOnAny2xx ==
    (ForgejoWrite /\ Done /\ seen[op].kind \in {"2xx", "2xx-nobody"})
        => result.state = "resolved"

EnvOperations == {"createGitForgeProviderFromEnv", "fetchForgeData"}

\* C29: the two configuration paths agree: the apiUrl and the serverUrl that
\* createGitForgeProviderFromEnv puts in the adapter's config are getForgeApiUrl()
\* and getForgeServerUrl() of the configuration module, and fetchForgeData
\* supplies a GitHub client exactly when the selector resolves the type "github".
C29_ConfigPathsAgree ==
    (op \in EnvOperations /\ pc # "start" /\ result.state # "rejected")
        => /\ config.apiUrl = getForgeApiUrl(env, "")
           /\ config.serverUrl = getForgeServerUrl(env, "")
           /\ op = "fetchForgeData" => octokits = (config.type = "github")

\* the two paths on a Forgejo type, or with no URL variable set at all
ConfigPathsAgreeOffGitHub ==
    (op \in EnvOperations /\ pc # "start" /\ result.state # "rejected"
        /\ (config.type = "forgejo"
              \/ (~IsSet(env.FORGE_API_URL) /\ ~IsSet(env.FORGE_SERVER_URL)
                    /\ ~IsSet(env.GITHUB_API_URL) /\ ~IsSet(env.GITHUB_SERVER_URL))))
        => /\ config.apiUrl = getForgeApiUrl(env, "")
           /\ config.serverUrl = getForgeServerUrl(env, "")

\* the type alone: fetchForgeData supplies the client exactly when the selector
\* resolves "github", so the selector never misses it
ClientSuppliedByType ==
    (op = "fetchForgeData" /\ pc # "start")
        => /\ result.state = "rejected" => result.error # MissingClientMessage
           /\ result.state # "rejected" => octokits = (config.type = "github")

\* C30: in a Forgejo pull-request fetchData, once the metadata response is
\* non-2xx or one of the four primary requests raised a network error, no
\* reviews, review-comments or display-name request is issued, and the call
\* ends rejected.
C30_PrimaryFailureStopsFetch ==
    (ForgejoFetch /\ isPR
        /\ (seen["pull"].kind \in {"non2xx", "non2xx-nobody"}
              \/ \E k \in PrimaryKeySet : seen[k].kind = "neterr"))
        => /\ ~IssuedTo("reviews") /\ ~IssuedTo("reviewComments") /\ ~IssuedTo("user")
           /\ pc \in {"awaitPrimary", "done"}
           /\ Done => result.state = "rejected"

C30_Witness ==
    /\ ForgejoFetch /\ isPR /\ RejectedNow
    /\ triggerUsername = Login
    /\ seen["pull"].kind = "non2xx"
    /\ \A k \in PrimaryKeySet : Answered(k)
    /\ Len(requests) = 4

====
